---- MODULE Spec2Model ----
(***************************************************************************)
(* A model of the agent pipeline of aware-AI: the keyword intent           *)
(* classifier (intent_service.py), the tool registry (tools/__init__.py),  *)
(* and the orchestrator's event stream (agent_service.py).                 *)
(*                                                                         *)
(* Python strings that the code inspects character by character (the       *)
(* query, document names, the LLM's classification answer) are sequences   *)
(* of one-character strings.  Strings the code only passes around (tool    *)
(* names, categories, event types, messages) are TLA+ strings.             *)
(***************************************************************************)
EXTENDS Integers, Sequences, FiniteSets, TLC

\* ------------------------------------------------------------------ text

UpperLetters == <<"A","B","C","D","E","F","G","H","I","J","K","L","M",
                  "N","O","P","Q","R","S","T","U","V","W","X","Y","Z">>
LowerLetters == <<"a","b","c","d","e","f","g","h","i","j","k","l","m",
                  "n","o","p","q","r","s","t","u","v","w","x","y","z">>
Digits == {"0","1","2","3","4","5","6","7","8","9"}

\* The characters \s matches (and str.strip removes).
Whitespace == {" ", "\t", "\n", "\r"}

\* The characters \w matches.
WordChars == {UpperLetters[i] : i \in 1..26} \cup {LowerLetters[i] : i \in 1..26}
             \cup Digits \cup {"_"}

\* Python's None and a present value of an Optional field.
None == [absent |-> TRUE]
Some(v) == [val |-> v]

SetMin(S) == CHOOSE m \in S : \A n \in S : m <= n
SetMax(S) == CHOOSE m \in S : \A n \in S : m >= n

lower_char(c) ==
    IF \E i \in 1..26 : UpperLetters[i] = c
    THEN LowerLetters[CHOOSE i \in 1..26 : UpperLetters[i] = c]
    ELSE c

\* str.lower()
str_lower(s) == [i \in 1..Len(s) |-> lower_char(s[i])]

\* str.strip()
str_strip(s) ==
    LET keep == {i \in 1..Len(s) : s[i] \notin Whitespace}
    IN  IF keep = {} THEN <<>> ELSE SubSeq(s, SetMin(keep), SetMax(keep))

\* needle in hay
str_in(needle, hay) ==
    \E i \in 0..(Len(hay) - Len(needle)) :
        \A j \in 1..Len(needle) : hay[i + j] = needle[j]

\* hay[i..] starts with needle, compared case-insensitively (re.IGNORECASE)
MatchAt(hay, i, needle) ==
    /\ i >= 1
    /\ i + Len(needle) - 1 <= Len(hay)
    /\ \A j \in 1..Len(needle) : lower_char(hay[i + j - 1]) = lower_char(needle[j])

\* \b between hay[p] and hay[p+1] (p = 0 is the start, p = Len(hay) the end)
WordBoundary(hay, p) ==
    LET before == p >= 1 /\ hay[p] \in WordChars
        after  == p + 1 <= Len(hay) /\ hay[p + 1] \in WordChars
    IN  before # after

\* The text of a character sequence.
RECURSIVE Str(_)
Str(s) == IF s = <<>> THEN "" ELSE Head(s) \o Str(Tail(s))

\* ", ".join(names)
RECURSIVE JoinComma(_)
JoinComma(names) ==
    IF names = <<>> THEN ""
    ELSE IF Len(names) = 1 THEN Str(names[1])
    ELSE Str(names[1]) \o ", " \o JoinComma(Tail(names))

\* A confidence is a rational n/d, d > 0.
Rat(n, d) == [n |-> n, d |-> d]
RatAdd(a, b) == Rat(a.n * b.d + b.n * a.d, a.d * b.d)
RatLt(a, b) == a.n * b.d < b.n * a.d
RatEq(a, b) == a.n * b.d = b.n * a.d
RatMin(a, b) == IF RatLt(b, a) THEN b ELSE a

\* ------------------------------------------------------- intent_service

IntentCategory == <<"document_summary", "document_search", "document_specific",
                    "document_list", "memory_recall", "general_chat", "vague_query">>

\* INTENT_KEYWORDS, in the dictionary's insertion order.
INTENT_KEYWORDS == <<
    [category |-> "document_summary", keywords |-> <<
        <<"s","u","m","m","a","r","i","z","e">>,
        <<"s","u","m","m","a","r","y">>,
        <<"k","e","y"," ","p","o","i","n","t","s">>,
        <<"m","a","i","n"," ","p","o","i","n","t","s">>,
        <<"o","v","e","r","v","i","e","w">>,
        <<"w","h","a","t"," ","d","o","e","s"," ","i","t"," ","s","a","y">>,
        <<"t","e","l","l"," ","m","e"," ","a","b","o","u","t">>,
        <<"e","x","p","l","a","i","n"," ","t","h","e"," ","p","a","p","e","r">>,
        <<"h","i","g","h","l","i","g","h","t","s">>,
        <<"t","l","d","r">>,
        <<"b","r","i","e","f">>,
        <<"r","e","c","a","p">>
    >>],
    [category |-> "document_search", keywords |-> <<
        <<"f","i","n","d">>,
        <<"s","e","a","r","c","h">>,
        <<"l","o","o","k"," ","f","o","r">>,
        <<"w","h","e","r","e"," ","d","o","e","s"," ","i","t"," ","s","a","y">>,
        <<"l","o","c","a","t","e">>,
        <<"w","h","i","c","h"," ","p","a","r","t">>,
        <<"m","e","n","t","i","o","n","s">>,
        <<"r","e","f","e","r","s"," ","t","o">>,
        <<"c","o","n","t","a","i","n","s">>
    >>],
    [category |-> "document_specific", keywords |-> <<
        <<"@">>,
        <<".","p","d","f">>,
        <<".","d","o","c","x">>,
        <<".","t","x","t">>,
        <<"t","h","e"," ","d","o","c","u","m","e","n","t">>,
        <<"t","h","e"," ","f","i","l","e">>,
        <<"t","h","a","t"," ","p","a","p","e","r">>,
        <<"t","h","i","s"," ","p","a","p","e","r">>,
        <<"u","p","l","o","a","d","e","d"," ","f","i","l","e">>,
        <<"m","y"," ","d","o","c","u","m","e","n","t">>
    >>],
    [category |-> "document_list", keywords |-> <<
        <<"w","h","a","t"," ","d","o","c","u","m","e","n","t","s">>,
        <<"l","i","s","t"," ","f","i","l","e","s">>,
        <<"m","y"," ","u","p","l","o","a","d","s">>,
        <<"w","h","a","t"," ","d","i","d"," ","i"," ","u","p","l","o","a","d">>,
        <<"s","h","o","w"," ","d","o","c","u","m","e","n","t","s">>,
        <<"a","v","a","i","l","a","b","l","e"," ","f","i","l","e","s">>,
        <<"u","p","l","o","a","d","e","d"," ","d","o","c","u","m","e","n","t","s">>
    >>],
    [category |-> "memory_recall", keywords |-> <<
        <<"r","e","m","e","m","b","e","r">>,
        <<"r","e","c","a","l","l">>,
        <<"w","e"," ","d","i","s","c","u","s","s","e","d">>,
        <<"e","a","r","l","i","e","r">>,
        <<"l","a","s","t"," ","t","i","m","e">>,
        <<"p","r","e","v","i","o","u","s","l","y">>,
        <<"y","o","u"," ","s","a","i","d">>,
        <<"i"," ","t","o","l","d"," ","y","o","u">>,
        <<"o","u","r"," ","c","o","n","v","e","r","s","a","t","i","o","n">>
    >>]
>>

\* VAGUE_PATTERNS: the alternatives of each pattern's group and its message.
VAGUE_PATTERNS == <<
    [alts |-> <<
        <<"t","h","i","s">>,
        <<"t","h","a","t">>,
        <<"i","t">>,
        <<"t","h","e"," ","d","o","c","u","m","e","n","t">>,
        <<"t","h","e"," ","p","a","p","e","r">>,
        <<"t","h","e"," ","f","i","l","e">>
     >>,
     clarification |->
        <<"W","h","i","c","h"," ","d","o","c","u","m","e","n","t"," ","a","r","e"," ","y","o","u"," ","r","e","f","e","r","r","i","n","g"," ","t","o","?">>],
    [alts |-> <<
        <<"s","u","m","m","a","r","i","z","e">>,
        <<"e","x","p","l","a","i","n">>,
        <<"t","e","l","l"," ","m","e"," ","a","b","o","u","t">>
     >>,
     clarification |->
        <<"W","h","a","t"," ","w","o","u","l","d"," ","y","o","u"," ","l","i","k","e"," ","m","e"," ","t","o"," ","s","u","m","m","a","r","i","z","e","?">>],
    [alts |-> <<
        <<"s","o","m","e","t","h","i","n","g">>,
        <<"s","t","u","f","f">>,
        <<"t","h","i","n","g","s">>
     >>,
     clarification |->
        <<"C","o","u","l","d"," ","y","o","u"," ","b","e"," ","m","o","r","e"," ","s","p","e","c","i","f","i","c"," ","a","b","o","u","t"," ","w","h","a","t"," ","y","o","u","'","r","e"," ","l","o","o","k","i","n","g"," ","f","o","r","?">>]
>>

\* The extensions of the first pattern's negative lookahead.
LookaheadExts == {<<"p","d","f">>, <<"d","o","c","x">>, <<"t","x","t">>}

\* doc_refs of _check_vagueness.
DocRefs == <<
    <<"t","h","i","s"," ","p","a","p","e","r">>,
    <<"t","h","e"," ","p","a","p","e","r">>,
    <<"t","h","i","s"," ","d","o","c","u","m","e","n","t">>,
    <<"t","h","e"," ","d","o","c","u","m","e","n","t">>,
    <<"u","p","l","o","a","d","e","d"," ","f","i","l","e">>,
    <<"m","y"," ","f","i","l","e">>,
    <<"t","h","e"," ","f","i","l","e">>
>>

KwDocument == <<"d","o","c","u","m","e","n","t">>
KwPaper == <<"p","a","p","e","r">>

\* DetectedIntent; __post_init__ turns absent entities into an empty dict.
DetectedIntent(category, confidence, tools, is_vague, message, options, entities) ==
    [category |-> category, confidence |-> confidence, tools_to_use |-> tools,
     is_vague |-> is_vague, clarification_message |-> message,
     clarification_options |-> options, extracted_entities |-> entities]

NoEntities == [k \in {} |-> <<>>]

\* dict.get(key): the value, or None.
DictGet(d, key) == IF key \in DOMAIN d THEN Some(d[key]) ELSE None

\* _get_tools_for_intent: the static category -> tools table.
get_tools_for_intent(category) ==
    CASE category = "document_summary"  -> <<"get_all_user_documents">>
      [] category = "document_search"   -> <<"search_documents">>
      [] category = "document_specific" -> <<"get_document_by_name">>
      [] category = "document_list"     -> <<"list_documents">>
      [] category = "memory_recall"     -> <<"search_memories", "get_recent_memories">>
      [] category = "general_chat"      -> <<>>
      [] category = "vague_query"       -> <<>>
      [] OTHER                          -> <<>>

\* The marker pattern written r'@(\w+)': the name stops at its first non-word
\* character.
AtMatchWordOnly(query) ==
    LET starts == {i \in 1..(Len(query) - 1) :
                     query[i] = "@" /\ query[i + 1] \in WordChars}
    IN  IF starts = {} THEN None
        ELSE LET i == SetMin(starts)
                 ends == {e \in (i + 1)..Len(query) :
                            \A k \in (i + 1)..e : query[k] \in WordChars}
             IN  Some(SubSeq(query, i + 1, SetMax(ends)))

\* re.search(r'@(\S+)', query): the group of the leftmost match, or None.
AtMatch(query) ==
    LET starts == {i \in 1..(Len(query) - 1) :
                     query[i] = "@" /\ query[i + 1] \notin Whitespace}
    IN  IF starts = {} THEN None
        ELSE LET i == SetMin(starts)
                 ends == {e \in (i + 1)..Len(query) :
                            \A k \in (i + 1)..e : query[k] \notin Whitespace}
             IN  Some(SubSeq(query, i + 1, SetMax(ends)))

\* (?!\s+\w+\.(pdf|docx|txt)) fails at position e when this holds.
FilenameFollows(q, e) ==
    \E a \in (e + 1)..Len(q) : \E b \in (a + 1)..Len(q) :
        /\ \A k \in (e + 1)..a : q[k] \in Whitespace
        /\ \A k \in (a + 1)..b : q[k] \in WordChars
        /\ b + 1 <= Len(q) /\ q[b + 1] = "."
        /\ \E ext \in LookaheadExts : MatchAt(q, b + 2, ext)

\* re.search(r'\b(alt1|alt2|...)\b', q), with the lookahead when asked for.
WordPatternFound(alts, q, lookahead) ==
    \E a \in 1..Len(alts) : \E i \in 1..Len(q) :
        LET e == i + Len(alts[a]) - 1
        IN  /\ MatchAt(q, i, alts[a])
            /\ WordBoundary(q, i - 1)
            /\ WordBoundary(q, e)
            /\ lookahead => ~FilenameFollows(q, e)

\* re.search(r'^(alt1|alt2|...)\s*$', q)
BarePatternFound(alts, q) ==
    \E a \in 1..Len(alts) :
        /\ MatchAt(q, 1, alts[a])
        /\ \A k \in (Len(alts[a]) + 1)..Len(q) : q[k] \in Whitespace

\* re.search(VAGUE_PATTERNS[p], q, re.IGNORECASE)
VaguePatternFound(p, q) ==
    CASE p = 1 -> WordPatternFound(VAGUE_PATTERNS[1].alts, q, TRUE)
      [] p = 2 -> BarePatternFound(VAGUE_PATTERNS[2].alts, q)
      [] p = 3 -> WordPatternFound(VAGUE_PATTERNS[3].alts, q, FALSE)

\* str(n) for a natural number n
DigitChars == <<"0", "1", "2", "3", "4", "5", "6", "7", "8", "9">>
RECURSIVE IntChars(_)
IntChars(n) ==
    IF n < 10 THEN <<DigitChars[n + 1]>>
    ELSE IntChars(n \div 10) \o <<DigitChars[(n % 10) + 1]>>

\* ", ".join(names), as characters
RECURSIVE JoinCommaChars(_)
JoinCommaChars(names) ==
    IF names = <<>> THEN <<>>
    ELSE IF Len(names) = 1 THEN names[1]
    ELSE names[1] \o <<",", " ">> \o JoinCommaChars(Tail(names))

\* The pieces of the two f-strings of _check_vagueness.
YouHave == <<"Y","o","u"," ","h","a","v","e"," ">>
DocumentsStop == <<" ","d","o","c","u","m","e","n","t","s",".">>
DocumentsColon == <<" ","d","o","c","u","m","e","n","t","s",":"," ">>
WhichOne == <<" ","W","h","i","c","h"," ","o","n","e"," ","w","o","u","l","d"," ","y","o","u"," ","l","i","k","e"," ","m","e"," ","t","o"," ","u","s","e","?">>

\* _check_vagueness: (is_vague, clarification), the clarification as characters.
check_vagueness_text(query, available_documents) ==
    LET found == {p \in 1..Len(VAGUE_PATTERNS) : VaguePatternFound(p, query)}
        many  == Len(available_documents) > 1
        n     == IntChars(Len(available_documents))
        q     == str_lower(query)
    IN  IF found # {}
        THEN LET clarification == VAGUE_PATTERNS[SetMin(found)].clarification
             IN  IF /\ many
                    /\ \/ str_in(KwDocument, str_lower(clarification))
                       \/ str_in(KwPaper, str_lower(clarification))
                 THEN <<TRUE, Some(YouHave \o n \o DocumentsStop \o WhichOne)>>
                 ELSE <<TRUE, Some(clarification)>>
        ELSE IF /\ many
                /\ \E r \in 1..Len(DocRefs) :
                      /\ str_in(DocRefs[r], q)
                      /\ ~\E d \in 1..Len(available_documents) :
                            str_in(str_lower(available_documents[d]), q)
             THEN <<TRUE, Some(YouHave \o n \o DocumentsColon
                               \o JoinCommaChars(available_documents)
                               \o <<".">> \o WhichOne)>>
             ELSE <<FALSE, None>>

\* _check_vagueness: (is_vague, clarification).
check_vagueness(query, available_documents) ==
    LET checked == check_vagueness_text(query, available_documents)
    IN  <<checked[1], IF checked[1] THEN Some(Str(checked[2].val)) ELSE None>>

\* The keyword score of every category of INTENT_KEYWORDS, in its order.
KeywordScores(query_lower) ==
    [c \in 1..Len(INTENT_KEYWORDS) |->
        Cardinality({k \in 1..Len(INTENT_KEYWORDS[c].keywords) :
                       str_in(INTENT_KEYWORDS[c].keywords[k], query_lower)})]

\* max(scores, key=scores.get): the first category holding the highest score.
BestCategoryIndex(scores) ==
    LET top == SetMax({scores[c] : c \in 1..Len(scores)})
    IN  SetMin({c \in 1..Len(scores) : scores[c] = top})

\* The document categories without document_summary.
DocumentCategoriesNoSummary == {"document_search", "document_specific"}

DocumentCategories == {"document_summary", "document_search", "document_specific"}

\* detect_intent_fast reporting the matched name as it is spelled in the query.
detect_intent_fast_lowered(query, available_documents) ==
    LET query_lower == str_strip(str_lower(query))
        at_match    == AtMatch(query)
        named       == {d \in 1..Len(available_documents) :
                          str_in(str_lower(available_documents[d]), query_lower)}
        scores      == KeywordScores(query_lower)
        best        == BestCategoryIndex(scores)
        best_category == INTENT_KEYWORDS[best].category
        best_score  == scores[best]
        max_possible == Len(INTENT_KEYWORDS[best].keywords)
        confidence  == IF best_score > 0
                       THEN RatMin(RatAdd(Rat(best_score, max_possible), Rat(3, 10)),
                                   Rat(95, 100))
                       ELSE Rat(5, 10)
        vague       == check_vagueness(query_lower, available_documents)
    IN  IF at_match # None
        THEN DetectedIntent("document_specific", Rat(95, 100),
                            <<"get_document_by_name">>, FALSE, None, None,
                            [k \in {"filename"} |-> at_match.val])
        ELSE IF named # {}
        THEN DetectedIntent("document_specific", Rat(9, 10),
                            <<"get_document_by_name">>, FALSE, None, None,
                            [k \in {"filename"} |->
                                str_lower(available_documents[SetMin(named)])])
        ELSE IF vague[1] /\ best_category \in DocumentCategories
        THEN DetectedIntent("vague_query", Rat(8, 10), <<>>, TRUE, vague[2],
                            Some(available_documents), NoEntities)
        ELSE DetectedIntent(best_category, confidence,
                            get_tools_for_intent(best_category), FALSE, None, None,
                            NoEntities)

\* detect_intent_fast
detect_intent_fast(query, available_documents) ==
    LET query_lower == str_strip(str_lower(query))
        at_match    == AtMatch(query)
        named       == {d \in 1..Len(available_documents) :
                          str_in(str_lower(available_documents[d]), query_lower)}
        scores      == KeywordScores(query_lower)
        best        == BestCategoryIndex(scores)
        best_category == INTENT_KEYWORDS[best].category
        best_score  == scores[best]
        max_possible == Len(INTENT_KEYWORDS[best].keywords)
        confidence  == IF best_score > 0
                       THEN RatMin(RatAdd(Rat(best_score, max_possible), Rat(3, 10)),
                                   Rat(95, 100))
                       ELSE Rat(5, 10)
        vague       == check_vagueness(query_lower, available_documents)
    IN  IF at_match # None
        THEN DetectedIntent("document_specific", Rat(95, 100),
                            <<"get_document_by_name">>, FALSE, None, None,
                            [k \in {"filename"} |-> at_match.val])
        ELSE IF named # {}
        THEN DetectedIntent("document_specific", Rat(9, 10),
                            <<"get_document_by_name">>, FALSE, None, None,
                            [k \in {"filename"} |-> available_documents[SetMin(named)]])
        ELSE IF vague[1] /\ best_category \in DocumentCategories
        THEN DetectedIntent("vague_query", Rat(8, 10), <<>>, TRUE, vague[2],
                            Some(available_documents), NoEntities)
        ELSE DetectedIntent(best_category, confidence,
                            get_tools_for_intent(best_category), FALSE, None, None,
                            NoEntities)

upper_char(c) ==
    IF \E i \in 1..26 : LowerLetters[i] = c
    THEN UpperLetters[CHOOSE i \in 1..26 : LowerLetters[i] = c]
    ELSE c

\* str.upper()
str_upper(s) == [i \in 1..Len(s) |-> upper_char(s[i])]

\* str.replace(old, new) for one-character old and new
str_replace(s, old, new) == [i \in 1..Len(s) |-> IF s[i] = old THEN new ELSE s[i]]

\* str.split(sep) for a one-character sep
RECURSIVE str_split(_, _)
str_split(s, sep) ==
    LET hits == {i \in 1..Len(s) : s[i] = sep}
    IN  IF hits = {} THEN <<s>>
        ELSE <<SubSeq(s, 1, SetMin(hits) - 1)>>
             \o str_split(SubSeq(s, SetMin(hits) + 1, Len(s)), sep)

\* str.split(sep, 1) of a string that contains sep
str_split_once(s, sep) ==
    LET i == SetMin({k \in 1..Len(s) : s[k] = sep})
    IN  <<SubSeq(s, 1, i - 1), SubSeq(s, i + 1, Len(s))>>

RECURSIVE DigitsValue(_)
DigitsValue(ds) ==
    IF ds = <<>> THEN 0
    ELSE 10 * DigitsValue(SubSeq(ds, 1, Len(ds) - 1))
         + (CHOOSE v \in 0..9 : ToString(v) = ds[Len(ds)])

RECURSIVE Pow10(_)
Pow10(k) == IF k = 0 THEN 1 ELSE 10 * Pow10(k - 1)

\* float(s): the number, or None where Python raises ValueError.  Plain decimals,
\* inf and nan; infinity is n/0 and nan is 0/0.
parse_float(s) ==
    LET t      == str_strip(s)
        signed == t # <<>> /\ t[1] \in {"+", "-"}
        neg    == signed /\ t[1] = "-"
        body   == IF signed THEN Tail(t) ELSE t
        name   == Str(str_lower(body))
        parts  == str_split(body, ".")
        whole  == parts[1]
        frac   == IF Len(parts) = 2 THEN parts[2] ELSE <<>>
        value  == DigitsValue(whole \o frac)
    IN  IF name \in {"inf", "infinity"} THEN Some(Rat(IF neg THEN -1 ELSE 1, 0))
        ELSE IF name = "nan" THEN Some(Rat(0, 0))
        ELSE IF /\ Len(parts) <= 2
                /\ whole \o frac # <<>>
                /\ \A i \in 1..Len(whole \o frac) : (whole \o frac)[i] \in Digits
        THEN Some(Rat(IF neg THEN -value ELSE value, Pow10(Len(frac))))
        ELSE None

\* The dict _parse_llm_response builds from the response's lines: a later line
\* with the same key replaces an earlier one.
ParsedFields(response) ==
    LET lines == str_split(str_strip(response), "\n")
        with  == {i \in 1..Len(lines) : \E k \in 1..Len(lines[i]) : lines[i][k] = ":"}
        key(i) == Str(str_upper(str_strip(str_split_once(lines[i], ":")[1])))
        val(i) == str_strip(str_split_once(lines[i], ":")[2])
    IN  [k \in {key(i) : i \in with} |-> val(SetMax({i \in with : key(i) = k}))]

\* parsed.get(key, default)
FieldOr(parsed, key, default) == IF key \in DOMAIN parsed THEN parsed[key] ELSE default

StrNone == <<"n","o","n","e">>

\* The entities dict of _parse_llm_response.
ParsedEntities(entities_str) ==
    LET pairs == str_split(entities_str, ",")
        with  == {i \in 1..Len(pairs) : \E k \in 1..Len(pairs[i]) : pairs[i][k] = "="}
        key(i) == Str(str_strip(str_split_once(pairs[i], "=")[1]))
        val(i) == str_strip(str_split_once(pairs[i], "=")[2])
    IN  IF entities_str # <<>> /\ str_lower(entities_str) # StrNone
        THEN [k \in {key(i) : i \in with} |-> val(SetMax({i \in with : key(i) = k}))]
        ELSE NoEntities

\* _parse_llm_response: the DetectedIntent, or None where float() raises ValueError.
parse_llm_response(response, available_documents) ==
    LET parsed     == ParsedFields(response)
        intent_str == Str(str_replace(str_lower(
                          FieldOr(parsed, "INTENT",
                                  <<"g","e","n","e","r","a","l","_","c","h","a","t">>)),
                          " ", "_"))
        category   == IF \E c \in 1..Len(IntentCategory) : IntentCategory[c] = intent_str
                      THEN intent_str ELSE "general_chat"
        confidence == parse_float(FieldOr(parsed, "CONFIDENCE", <<"0",".","7">>))
        pieces     == str_split(FieldOr(parsed, "TOOLS", StrNone), ",")
        named      == SelectSeq(pieces,
                          LAMBDA t : str_strip(t) # <<>> /\ str_strip(t) # StrNone)
        tools      == [i \in 1..Len(named) |-> Str(str_strip(named[i]))]
        is_vague   == str_lower(FieldOr(parsed, "IS_VAGUE",
                                        <<"f","a","l","s","e">>)) = <<"t","r","u","e">>
        given      == IF "CLARIFICATION" \in DOMAIN parsed
                      THEN Some(Str(parsed["CLARIFICATION"])) ELSE None
        clarification ==
            IF /\ "CLARIFICATION" \in DOMAIN parsed
               /\ parsed["CLARIFICATION"] # <<>>
               /\ str_lower(parsed["CLARIFICATION"]) = StrNone
            THEN None ELSE given
        entities   == ParsedEntities(FieldOr(parsed, "ENTITIES", StrNone))
    IN  IF confidence = None THEN None
        ELSE Some(DetectedIntent(category, confidence.val,
                     IF tools # <<>> THEN tools ELSE get_tools_for_intent(category),
                     is_vague, clarification,
                     IF is_vague THEN Some(available_documents) ELSE None,
                     entities))

\* ---------------------------------------------------------------- tools

\* ToolResult
ToolResult(data, summary, success, error) ==
    [data |-> data, summary |-> summary, success |-> success, error |-> error]

\* What a handler call ends in: a returned value or a raised exception.
Returned(value, is_tool_result) ==
    [kind |-> "return", value |-> value, is_tool_result |-> is_tool_result]
Raised(message) == [kind |-> "raise", message |-> message]

\* What the document store or the memory store does when a tool calls it.
StoreOutcomes == {"rows", "none", "fault"}
StoreFault == "store unavailable"

\* The rows a store holds for the caller when it answers with rows.
DocumentRows ==
    << [content |-> "alpha", metadata |-> [filename |-> "a.pdf"]],
       [content |-> "beta",  metadata |-> [filename |-> "a.pdf"]] >>
MemoryRows ==
    << [memory |-> "likes tea", metadata |-> [source |-> "chat"]] >>

\* ToolResult.data is a list of items or one document dict.
ListData(items) == [kind |-> "list", items |-> items]
\* A list whose items are str: file names or a handler's plain strings.
NameList(items) == [kind |-> "list", of |-> "str", items |-> items]
DocumentData(filename, content, chunk_count) ==
    [kind |-> "dict", filename |-> filename, content |-> content,
     chunk_count |-> chunk_count]

\* Python's truth value of ToolResult.data.
Truthy(data) == data # None /\ (data.kind = "dict" \/ data.items # <<>>)

\* "\n\n".join(contents)
RECURSIVE JoinParagraphs(_)
JoinParagraphs(contents) ==
    IF contents = <<>> THEN ""
    ELSE IF Len(contents) = 1 THEN contents[1]
    ELSE contents[1] \o "\n\n" \o JoinParagraphs(Tail(contents))

IdentityRequired ==
    Returned(ToolResult(ListData(<<>>), "No user ID provided", FALSE,
                        Some("User ID required")), TRUE)

\* user_id is None: an empty identity passes the test.
NoIdentityAbsentOnly(kwargs) == "user_id" \notin DOMAIN kwargs

\* not user_id
NoIdentity(kwargs) == "user_id" \notin DOMAIN kwargs \/ kwargs.user_id = ""

\* search_documents(query, limit, user_id)
search_documents(kwargs, store) ==
    IF NoIdentity(kwargs) THEN IdentityRequired
    ELSE IF store = "fault" THEN Raised(StoreFault)
    ELSE IF store = "none"
    THEN Returned(ToolResult(ListData(<<>>), "No matching documents found",
                             TRUE, None), TRUE)
    ELSE Returned(ToolResult(
             ListData([i \in 1..Len(DocumentRows) |->
                          [content |-> DocumentRows[i].content,
                           metadata |-> DocumentRows[i].metadata]]),
             "Found " \o ToString(Len(DocumentRows))
                 \o " relevant chunks from 1 document(s): a.pdf",
             TRUE, None), TRUE)

\* get_all_user_documents(max_chunks, user_id): a store fault is caught here.
get_all_user_documents(kwargs, store) ==
    IF NoIdentity(kwargs) THEN IdentityRequired
    ELSE IF store = "fault"
    THEN Returned(ToolResult(ListData(<<>>), "Error fetching documents: " \o StoreFault,
                             FALSE, Some(StoreFault)), TRUE)
    ELSE IF store = "none"
    THEN Returned(ToolResult(ListData(<<>>), "Retrieved 0 chunks from 0 document(s)",
                             TRUE, None), TRUE)
    ELSE Returned(ToolResult(
             ListData(<< [filename |-> "a.pdf",
                          content |-> JoinParagraphs([i \in 1..Len(DocumentRows) |->
                                                         DocumentRows[i].content]),
                          chunk_count |-> Len(DocumentRows)] >>),
             "Retrieved " \o ToString(Len(DocumentRows))
                 \o " chunks from 1 document(s): a.pdf",
             TRUE, None), TRUE)

\* get_document_by_name(filename, max_chunks, user_id): a store fault is caught here.
get_document_by_name(kwargs, store) ==
    IF NoIdentity(kwargs) THEN IdentityRequired
    ELSE IF store = "fault"
    THEN Returned(ToolResult(ListData(<<>>), "Error fetching document: " \o StoreFault,
                             FALSE, Some(StoreFault)), TRUE)
    ELSE IF store = "none"
    THEN Returned(ToolResult(ListData(<<>>),
                             "Document '" \o Str(kwargs.filename) \o "' not found",
                             TRUE, None), TRUE)
    ELSE Returned(ToolResult(
             DocumentData(kwargs.filename,
                          JoinParagraphs([i \in 1..Len(DocumentRows) |->
                                             DocumentRows[i].content]),
                          Len(DocumentRows)),
             "Retrieved " \o ToString(Len(DocumentRows)) \o " chunks from '"
                 \o Str(kwargs.filename) \o "'",
             TRUE, None), TRUE)

\* list_documents(user_id)
list_documents(kwargs, store) ==
    IF NoIdentity(kwargs) THEN IdentityRequired
    ELSE IF store = "fault" THEN Raised(StoreFault)
    ELSE IF store = "none"
    THEN Returned(ToolResult(ListData(<<>>), "No documents uploaded", TRUE, None), TRUE)
    ELSE Returned(ToolResult(NameList(<<"a.pdf">>), "Found 1 document(s): a.pdf",
                             TRUE, None), TRUE)

\* The formatted memories of search_memories and get_recent_memories.
FormattedMemories ==
    [i \in 1..Len(MemoryRows) |->
        [content |-> MemoryRows[i].memory, metadata |-> MemoryRows[i].metadata]]

\* search_memories(query, limit, user_id)
search_memories(kwargs, store) ==
    IF NoIdentity(kwargs) THEN IdentityRequired
    ELSE IF store = "fault" THEN Raised(StoreFault)
    ELSE IF store = "none"
    THEN Returned(ToolResult(ListData(<<>>), "No matching memories found", TRUE, None),
                  TRUE)
    ELSE Returned(ToolResult(ListData(FormattedMemories),
                             "Found " \o ToString(Len(MemoryRows)) \o " relevant memories",
                             TRUE, None), TRUE)

\* get_recent_memories(limit, user_id)
get_recent_memories(kwargs, store) ==
    IF NoIdentity(kwargs) THEN IdentityRequired
    ELSE IF store = "fault" THEN Raised(StoreFault)
    ELSE IF store = "none"
    THEN Returned(ToolResult(ListData(<<>>), "No memories found", TRUE, None), TRUE)
    ELSE Returned(ToolResult(ListData(FormattedMemories),
                             "Retrieved " \o ToString(Len(MemoryRows)) \o " recent memories",
                             TRUE, None), TRUE)

\* load_tools importing document_tools only.
LoadedToolsDocumentsOnly ==
    {"search_documents", "get_all_user_documents", "get_document_by_name",
     "list_documents"}

\* The registry after load_tools has imported document_tools and memory_tools.
LoadedTools == {"search_documents", "get_all_user_documents", "get_document_by_name",
                "list_documents", "search_memories", "get_recent_memories"}

\* The parameters each tool function requires and accepts.
ToolSignatures ==
    [search_documents       |-> [required |-> {"query"}, optional |-> {"limit", "user_id"}],
     get_all_user_documents |-> [required |-> {}, optional |-> {"max_chunks", "user_id"}],
     get_document_by_name   |-> [required |-> {"filename"},
                                 optional |-> {"max_chunks", "user_id"}],
     list_documents         |-> [required |-> {}, optional |-> {"user_id"}],
     search_memories        |-> [required |-> {"query"}, optional |-> {"limit", "user_id"}],
     get_recent_memories    |-> [required |-> {}, optional |-> {"limit", "user_id"}]]

\* Handlers registered besides the six tools, each taking any keyword arguments:
\* one returning a ToolResult (as in the module's usage note), a second one
\* returning another ToolResult, one returning a plain list, and one raising.
OtherHandlers == {"my_tool", "my_tool_v2", "plain_list", "broken"}

CallOtherHandler(handler, kwargs) ==
    CASE handler = "my_tool" ->
             Returned(ToolResult(NameList(<<"result">>), "Brief summary", TRUE, None), TRUE)
      [] handler = "my_tool_v2" ->
             Returned(ToolResult(NameList(<<"other result">>), "Another summary", TRUE,
                                 None), TRUE)
      [] handler = "plain_list" -> Returned(NameList(<<"x", "y">>), FALSE)
      [] handler = "broken" -> Raised("boom")

\* handler(**params): binding the keyword arguments raises TypeError when one is
\* missing or unexpected.
CallHandler(handler, kwargs, store) ==
    IF handler \in OtherHandlers THEN CallOtherHandler(handler, kwargs)
    ELSE
    IF ~(/\ ToolSignatures[handler].required \subseteq DOMAIN kwargs
         /\ DOMAIN kwargs \subseteq
               ToolSignatures[handler].required \cup ToolSignatures[handler].optional)
    THEN Raised(handler \o "() got missing or unexpected keyword arguments")
    ELSE
    CASE handler = "search_documents"       -> search_documents(kwargs, store)
      [] handler = "get_all_user_documents" -> get_all_user_documents(kwargs, store)
      [] handler = "get_document_by_name"   -> get_document_by_name(kwargs, store)
      [] handler = "list_documents"         -> list_documents(kwargs, store)
      [] handler = "search_memories"        -> search_memories(kwargs, store)
      [] handler = "get_recent_memories"    -> get_recent_memories(kwargs, store)

\* params.setdefault("user_id", user_id): a user_id already in params is kept.
InjectIdentityIfAbsent(params, user_id) ==
    [k \in DOMAIN params \cup {"user_id"} |->
        IF k \in DOMAIN params THEN params[k] ELSE user_id]

\* params["user_id"] = user_id
InjectIdentity(params, user_id) ==
    [k \in DOMAIN params \cup {"user_id"} |->
        IF k = "user_id" THEN user_id ELSE params[k]]

\* The except branch leaving success at ToolResult's default, True.
HandlerFailureDefaultSuccess(name, message) ==
    ToolResult(None, "Error executing '" \o name \o "': " \o message, TRUE,
               Some(message))

\* execute_tool's except branch: the failure is returned, not raised.
HandlerFailure(name, message) ==
    ToolResult(None, "Error executing '" \o name \o "': " \o message, FALSE,
               Some(message))

\* execute_tool without its try/except: the handler's exception leaves it.
execute_tool_propagating(registry, name, params, user_id, store) ==
    IF name \notin DOMAIN registry
    THEN [result |-> ToolResult(None, "Tool '" \o name \o "' not found", FALSE,
                                Some("Unknown tool: " \o name)),
          kwargs |-> None, faulted |-> None, raised |-> None]
    ELSE LET kwargs  == InjectIdentity(params, user_id)
             outcome == CallHandler(registry[name].handler, kwargs, store)
         IN  [result |->
                 IF outcome.kind = "raise" THEN HandlerFailure(name, outcome.message)
                 ELSE outcome.value,
              kwargs |-> Some(kwargs),
              faulted |-> IF outcome.kind = "raise" THEN Some(outcome.message) ELSE None,
              raised |-> IF outcome.kind = "raise" THEN Some(outcome.message) ELSE None]

\* execute_tool indexing TOOL_REGISTRY[name] instead of .get(name): an unknown name
\* raises KeyError.
execute_tool_keyerror(registry, name, params, user_id, store) ==
    LET kwargs  == InjectIdentity(params, user_id)
        outcome == CallHandler(registry[name].handler, kwargs, store)
    IN  IF name \notin DOMAIN registry
        THEN [result |-> ToolResult(None, "", FALSE, None), kwargs |-> None,
              faulted |-> None, raised |-> Some("'" \o name \o "'")]
        ELSE [result |->
                 IF outcome.kind = "raise" THEN HandlerFailure(name, outcome.message)
                 ELSE outcome.value,
              kwargs |-> Some(kwargs),
              faulted |-> IF outcome.kind = "raise" THEN Some(outcome.message) ELSE None,
              raised |-> None]

\* execute_tool without its isinstance test: every returned value is wrapped.
execute_tool_wrapping(registry, name, params, user_id, store) ==
    IF name \notin DOMAIN registry
    THEN [result |-> ToolResult(None, "Tool '" \o name \o "' not found", FALSE,
                                Some("Unknown tool: " \o name)),
          kwargs |-> None, faulted |-> None, raised |-> None]
    ELSE LET kwargs  == InjectIdentity(params, user_id)
             outcome == CallHandler(registry[name].handler, kwargs, store)
         IN  [result |->
                 IF outcome.kind = "raise" THEN HandlerFailure(name, outcome.message)
                 ELSE ToolResult(outcome.value,
                                 "Tool '" \o name \o "' executed successfully", TRUE, None),
              kwargs |-> Some(kwargs),
              faulted |-> IF outcome.kind = "raise" THEN Some(outcome.message) ELSE None,
              raised |-> None]

\* execute_tool: the ToolResult, the keyword arguments the handler ran with (None when
\* no handler ran), the message of the exception the handler raised (None when it
\* returned) and the exception that left execute_tool (None: it returned).
execute_tool(registry, name, params, user_id, store) ==
    IF name \notin DOMAIN registry
    THEN [result |-> ToolResult(None, "Tool '" \o name \o "' not found", FALSE,
                                Some("Unknown tool: " \o name)),
          kwargs |-> None, faulted |-> None, raised |-> None]
    ELSE LET kwargs  == InjectIdentity(params, user_id)
             outcome == CallHandler(registry[name].handler, kwargs, store)
         IN  [result |->
                 IF outcome.kind = "raise" THEN HandlerFailure(name, outcome.message)
                 ELSE IF outcome.is_tool_result THEN outcome.value
                 ELSE ToolResult(outcome.value,
                                 "Tool '" \o name \o "' executed successfully", TRUE, None),
              kwargs |-> Some(kwargs),
              faulted |-> IF outcome.kind = "raise" THEN Some(outcome.message) ELSE None,
              raised |-> None]
\* The texts the LLM provider may answer a classification prompt with.
ClassifierAnswers == {
    \* INTENT: general_chat
    \* CONFIDENCE: 0.9
    \* TOOLS: none
    \* IS_VAGUE: false
    \* CLARIFICATION: none
    \* ENTITIES: none
    <<"I","N","T","E","N","T",":"," ","g","e","n","e","r","a","l","_","c","h","a","t","\n","C","O","N","F","I","D","E","N","C","E",":"," ","0",".","9","\n","T","O","O","L","S",":"," ","n","o","n","e","\n","I","S","_","V","A","G","U","E",":"," ","f","a","l","s","e","\n","C","L","A","R","I","F","I","C","A","T","I","O","N",":"," ","n","o","n","e","\n","E","N","T","I","T","I","E","S",":"," ","n","o","n","e">>,
    \* INTENT: memory_recall
    \* CONFIDENCE: 0.8
    \* TOOLS: none
    \* IS_VAGUE: false
    <<"I","N","T","E","N","T",":"," ","m","e","m","o","r","y","_","r","e","c","a","l","l","\n","C","O","N","F","I","D","E","N","C","E",":"," ","0",".","8","\n","T","O","O","L","S",":"," ","n","o","n","e","\n","I","S","_","V","A","G","U","E",":"," ","f","a","l","s","e">>,
    \* INTENT: vague_query
    \* CONFIDENCE: 0.6
    \* TOOLS: none
    \* IS_VAGUE: true
    \* CLARIFICATION: Which file?
    <<"I","N","T","E","N","T",":"," ","v","a","g","u","e","_","q","u","e","r","y","\n","C","O","N","F","I","D","E","N","C","E",":"," ","0",".","6","\n","T","O","O","L","S",":"," ","n","o","n","e","\n","I","S","_","V","A","G","U","E",":"," ","t","r","u","e","\n","C","L","A","R","I","F","I","C","A","T","I","O","N",":"," ","W","h","i","c","h"," ","f","i","l","e","?">>,
    \* INTENT: document_summary
    \* CONFIDENCE: 0.9
    \* TOOLS: get_all_user_documents
    \* IS_VAGUE: True
    \* CLARIFICATION: none
    <<"I","N","T","E","N","T",":"," ","d","o","c","u","m","e","n","t","_","s","u","m","m","a","r","y","\n","C","O","N","F","I","D","E","N","C","E",":"," ","0",".","9","\n","T","O","O","L","S",":"," ","g","e","t","_","a","l","l","_","u","s","e","r","_","d","o","c","u","m","e","n","t","s","\n","I","S","_","V","A","G","U","E",":"," ","T","r","u","e","\n","C","L","A","R","I","F","I","C","A","T","I","O","N",":"," ","n","o","n","e">>,
    \* INTENT: document_search
    \* TOOLS: nonexistent_tool, search_documents
    \* IS_VAGUE: false
    <<"I","N","T","E","N","T",":"," ","d","o","c","u","m","e","n","t","_","s","e","a","r","c","h","\n","T","O","O","L","S",":"," ","n","o","n","e","x","i","s","t","e","n","t","_","t","o","o","l",","," ","s","e","a","r","c","h","_","d","o","c","u","m","e","n","t","s","\n","I","S","_","V","A","G","U","E",":"," ","f","a","l","s","e">>,
    \* INTENT: general_chat
    \* CONFIDENCE: high
    <<"I","N","T","E","N","T",":"," ","g","e","n","e","r","a","l","_","c","h","a","t","\n","C","O","N","F","I","D","E","N","C","E",":"," ","h","i","g","h">>,
    \* Intent: Document Specific
    \* confidence: 1.5
    \* entities: filename=a.pdf
    <<"I","n","t","e","n","t",":"," ","D","o","c","u","m","e","n","t"," ","S","p","e","c","i","f","i","c","\n","c","o","n","f","i","d","e","n","c","e",":"," ","1",".","5","\n","e","n","t","i","t","i","e","s",":"," ","f","i","l","e","n","a","m","e","=","a",".","p","d","f">>,
    \* I cannot help
    <<"I"," ","c","a","n","n","o","t"," ","h","e","l","p">>,
    \* INTENT: vague_query
    \* CONFIDENCE: 0.4
    \* IS_VAGUE: false
    <<"I","N","T","E","N","T",":"," ","v","a","g","u","e","_","q","u","e","r","y","\n","C","O","N","F","I","D","E","N","C","E",":"," ","0",".","4","\n","I","S","_","V","A","G","U","E",":"," ","f","a","l","s","e">>,
    \* INTENT: document_specific
    \* CONFIDENCE: 0.9
    \* TOOLS: get_document_by_name, list_documents
    <<"I","N","T","E","N","T",":"," ","d","o","c","u","m","e","n","t","_","s","p","e","c","i","f","i","c","\n","C","O","N","F","I","D","E","N","C","E",":"," ","0",".","9","\n","T","O","O","L","S",":"," ","g","e","t","_","d","o","c","u","m","e","n","t","_","b","y","_","n","a","m","e",","," ","l","i","s","t","_","d","o","c","u","m","e","n","t","s">>,
    \* INTENT: document_list
    \* INTENT: memory_recall
    \* CONFIDENCE: 0.5
    \* TOOLS: None
    <<"I","N","T","E","N","T",":"," ","d","o","c","u","m","e","n","t","_","l","i","s","t","\n","I","N","T","E","N","T",":"," ","m","e","m","o","r","y","_","r","e","c","a","l","l","\n","C","O","N","F","I","D","E","N","C","E",":"," ","0",".","5","\n","T","O","O","L","S",":"," ","N","o","n","e">>
}
\* The queries process_query is run on.
Queries == {
    \* @a.pdf what was the revenue?
    <<"@","a",".","p","d","f"," ","w","h","a","t"," ","w","a","s"," ","t","h","e"," ","r","e","v","e","n","u","e","?">>,
    \* summarize this @a.pdf stuff
    <<"s","u","m","m","a","r","i","z","e"," ","t","h","i","s"," ","@","a",".","p","d","f"," ","s","t","u","f","f">>,
    \* summarize this
    <<"s","u","m","m","a","r","i","z","e"," ","t","h","i","s">>,
    \* what do you remember about my trip?
    <<"w","h","a","t"," ","d","o"," ","y","o","u"," ","r","e","m","e","m","b","e","r"," ","a","b","o","u","t"," ","m","y"," ","t","r","i","p","?">>,
    \* hello
    <<"h","e","l","l","o">>,
    \* summarize b.txt
    <<"s","u","m","m","a","r","i","z","e"," ","b",".","t","x","t">>,
    \* mail me @ noon
    <<"m","a","i","l"," ","m","e"," ","@"," ","n","o","o","n">>
}

\* --------------------------------------------------------- agent_service

\* AgentEvent: every field but type defaults to None.
AgentEvent(type) ==
    [type |-> type, content |-> None, tool |-> None, params |-> None,
     summary |-> None, message |-> None, options |-> None, intent |-> None,
     confidence |-> None, conversation_id |-> None]

EmptyDict == [k \in {} |-> None]

\* _build_tool_params
build_tool_params(tool_name, q, detected) ==
    LET entity   == DictGet(detected.extracted_entities, "filename")
        at_match == AtMatch(q)
        filename == IF entity # None /\ entity.val # <<>> THEN entity.val
                    ELSE IF at_match # None THEN at_match.val
                    ELSE <<>>
    IN  CASE tool_name = "search_documents"       -> [query |-> q, limit |-> 10]
          [] tool_name = "get_all_user_documents" -> [max_chunks |-> 50]
          [] tool_name = "get_document_by_name"   ->
                 [filename |-> filename, max_chunks |-> 30]
          [] tool_name = "list_documents"         -> EmptyDict
          [] tool_name = "search_memories"        -> [query |-> q, limit |-> 5]
          [] tool_name = "get_recent_memories"    -> [limit |-> 10]
          [] OTHER                                -> EmptyDict

\* {k: v for k, v in params.items() if k != "user_id"}
WithoutIdentity(params) == [k \in DOMAIN params \ {"user_id"} |-> params[k]]

\* The threshold written 0.95.
FastIsConfidentStrict(fast) == RatLt(Rat(95, 100), fast.confidence) /\ ~fast.is_vague

FastIsConfidentAboveNinety(fast) == RatLt(Rat(9, 10), fast.confidence) /\ ~fast.is_vague

\* fast_result.confidence > 0.85 and not fast_result.is_vague
FastIsConfident(fast) == RatLt(Rat(85, 100), fast.confidence) /\ ~fast.is_vague

ApiKeyError == "OPENAI_API_KEY is not set. Please set it in your .env file."

\* detect_intent_with_llm whose except branch returns a general_chat intent
\* in place of fast_result.
detect_intent_with_llm_default(q, available_documents, answer) ==
    LET fast_result == detect_intent_fast(q, available_documents)
        parsed == parse_llm_response(answer.text, available_documents)
        default == DetectedIntent("general_chat", Rat(5, 10), <<>>, FALSE, None, None,
                                  NoEntities)
    IN  IF FastIsConfident(fast_result) THEN fast_result
        ELSE IF answer = None THEN fast_result
        ELSE IF answer.kind = "fault" THEN default
        ELSE IF parsed = None THEN fast_result
        ELSE parsed.val

\* detect_intent_with_llm, given what the provider call ends in: None when no call is
\* made, a fault, or the answered text.
detect_intent_with_llm(q, available_documents, answer) ==
    LET fast_result == detect_intent_fast(q, available_documents)
        parsed == parse_llm_response(answer.text, available_documents)
    IN  IF FastIsConfident(fast_result) THEN fast_result
        ELSE IF answer = None \/ answer.kind = "fault" THEN fast_result
        ELSE IF parsed = None THEN fast_result
        ELSE parsed.val

\* context_parts built from every tool result that has data.
ContextSourcesAnyData(results) ==
    SelectSeq([i \in 1..Len(results) |-> i], LAMBDA i : Truthy(results[i].data))

\* The indices of the tool results that context_parts is built from.
ContextSources(results) ==
    SelectSeq([i \in 1..Len(results) |-> i],
              LAMBDA i : results[i].success /\ Truthy(results[i].data))

\* The provider's stream items: a delta with its content, or the fault that ends it.
Delta(content) == [kind |-> "delta", content |-> content]
StreamFault(message) == [kind |-> "fault", message |-> message]

\* for chunk in stream_response: if chunk.choices[0].delta.content: the stream from
\* its first item that is not an empty delta.
RECURSIVE SkipEmptyDeltas(_)
SkipEmptyDeltas(stream) ==
    IF stream # <<>> /\ Head(stream).kind = "delta" /\ Head(stream).content = ""
    THEN SkipEmptyDeltas(Tail(stream))
    ELSE stream

\* ----------------------------------------------------- the generation context
\* A text of the context is kept by its length in characters: slicing, joining
\* and the truth value of a str depend on nothing else.

Min2(a, b) == IF a <= b THEN a ELSE b

RECURSIVE SumSeq(_)
SumSeq(numbers) == IF numbers = <<>> THEN 0 ELSE Head(numbers) + SumSeq(Tail(numbers))

\* len(separator.join(parts)) for parts of the given lengths.
Joined(lengths, separator) ==
    IF lengths = <<>> THEN 0
    ELSE SumSeq(lengths) + Len(separator) * (Len(lengths) - 1)

\* data[:20]
ChunkLimit == 20
\* item.get("content", "")[:2000]
ChunkContentCap == 2000
\* item.get("content", "")[:3000]
DocumentContentCap == 3000

\* dict.get(key, default)
ItemGet(item, key, default) == IF key \in DOMAIN item THEN item[key] ELSE default

\* item.get("metadata", {}).get("filename") or item.get("filename", "")
ItemFilename(item) ==
    LET named == ItemGet(ItemGet(item, "metadata", EmptyDict), "filename", "")
    IN  IF Len(named) > 0 THEN named ELSE ItemGet(item, "filename", "")

\* content[:cap] of an item: how long the content is and how much of it is taken.
Sliced(filename, content, cap) ==
    [filename |-> filename, content_length |-> Len(content),
     taken |-> Min2(Len(content), cap)]

\* The content of an item as it is.
Whole(filename, content) ==
    [filename |-> filename, content_length |-> Len(content), taken |-> Len(content)]

\* Lines 273-283: document chunks (and memory items).
FormatChunks(items) ==
    LET head   == SubSeq(items, 1, Min2(Len(items), ChunkLimit))
        placed == [i \in 1..Len(head) |->
                      Sliced(ItemFilename(head[i]), ItemGet(head[i], "content", ""),
                             ChunkContentCap)]
        part(i) == IF Len(placed[i].filename) > 0
                   THEN Len("[From ") + Len(placed[i].filename) + Len("]:\n")
                            + placed[i].taken
                   ELSE placed[i].taken
    IN  [items |-> placed,
         length |-> Joined([i \in 1..Len(placed) |-> part(i)], "\n\n---\n\n")]

\* Lines 284-291: grouped documents.
FormatGrouped(items) ==
    LET placed == [i \in 1..Len(items) |->
                      Sliced(ItemGet(items[i], "filename", "unknown"),
                             ItemGet(items[i], "content", ""), DocumentContentCap)]
        part(i) == Len("=== Document: ") + Len(placed[i].filename) + Len(" ===\n")
                       + placed[i].taken
    IN  [items |-> placed,
         length |-> Joined([i \in 1..Len(placed) |-> part(i)], "\n\n")]

\* Lines 292-294: a list of file names.
FormatNames(names) ==
    [items |-> <<>>,
     length |-> Len("Available documents: ")
                    + Joined([i \in 1..Len(names) |-> Len(names[i])], ", ")]

\* Lines 297-302: a single document.
FormatDocument(data) ==
    LET filename == ItemGet(data, "filename", "")
        content  == ItemGet(data, "content", "")
    IN  [items |-> <<Whole(filename, content)>>,
         length |-> IF Len(filename) > 0
                    THEN Len("=== Document: ") + Len(filename) + Len(" ===\n")
                             + Len(content)
                    ELSE Len(content)]

\* Line 304: str(data) of a list of dicts that is neither of the above, for dicts
\* of filename and content holding no quote or control character.
FormatRepr(items) ==
    LET field(key, value) == Len("'") + Len(key) + Len("': '") + Len(value) + Len("'")
        fields(item) ==
            SelectSeq(<<"filename", "content">>, LAMBDA key : key \in DOMAIN item)
        dict(item) ==
            Len("{")
                + Joined([k \in 1..Len(fields(item)) |->
                             field(fields(item)[k], item[fields(item)[k]])], ", ")
                + Len("}")
    IN  [items |-> [i \in 1..Len(items) |->
                       Whole(ItemGet(items[i], "filename", ""),
                             ItemGet(items[i], "content", ""))],
         length |-> Len("[") + Joined([i \in 1..Len(items) |-> dict(items[i])], ", ")
                        + Len("]")]

\* _format_tool_result: the content items placed into the text and its length.
format_tool_result(result) ==
    LET data == result.data
    IN  IF ~Truthy(data) THEN [items |-> <<>>, length |-> 0]
        ELSE IF data.kind = "dict" THEN FormatDocument(data)
        ELSE IF "of" \in DOMAIN data THEN FormatNames(data.items)
        ELSE IF \A i \in 1..Len(data.items) : "content" \in DOMAIN data.items[i]
        THEN FormatChunks(data.items)
        ELSE IF \A i \in 1..Len(data.items) : "filename" \in DOMAIN data.items[i]
        THEN FormatGrouped(data.items)
        ELSE FormatRepr(data.items)

\* The context before _generate_response has run.
NoContext == [parts |-> <<>>, length |-> 0]

\* _generate_response, lines 239-246: "\n\n".join(context_parts), or "".
BuildContext(results) ==
    LET sources == ContextSources(results)
        parts   == [i \in 1..Len(sources) |-> format_tool_result(results[sources[i]])]
    IN  [parts |-> parts,
         length |-> Joined([i \in 1..Len(parts) |-> parts[i].length], "\n\n")]

\* The categories _build_system_prompt adds a TASK section for.
TaskCategories ==
    {"document_summary", "document_search", "memory_recall", "document_list"}

\* _build_system_prompt: the sections added to the base prompt.
build_system_prompt(detected, ctx) ==
    [task |-> IF detected.category \in TaskCategories
              THEN Some(detected.category) ELSE None,
     document_content |-> IF ctx.length > 0 THEN Some(ctx) ELSE None,
     no_content_note |-> ~(ctx.length > 0)]

\* ------------------------------------------------- the generation messages

Message(role, content) == [role |-> role, content |-> content]

\* Line 255: how many earlier turns the generation call is given.
HistoryWindow == 10

\* conversation_history[-10:], the last turns in their order.
LastTurns(history) ==
    SubSeq(history, Len(history) - Min2(HistoryWindow, Len(history)) + 1, Len(history))

\* conversation_history[:10], the first turns.
FirstTurns(history) ==
    SubSeq(history, 1, Min2(HistoryWindow, Len(history)))

\* The messages with the first turns of the history instead of the last.
BuildMessagesFirstTurns(system_prompt, history, text) ==
    <<Message("system", system_prompt)>> \o FirstTurns(history)
        \o <<Message("user", text)>>

\* Lines 251-258: the system prompt, the last turns of the history, the query.
BuildMessages(system_prompt, history, text) ==
    <<Message("system", system_prompt)>> \o LastTurns(history)
        \o <<Message("user", text)>>

\* ------------------------------------------------------------ the wire format

OptionalFields == DOMAIN AgentEvent("") \ {"type"}

\* AgentEvent.to_dict with every field written, a field that is None as null.
to_dict_with_nulls(event) ==
    [k \in DOMAIN event |->
        IF k = "type" THEN event.type
        ELSE IF event[k] = None THEN None ELSE event[k].val]

\* AgentEvent.to_dict
to_dict(event) ==
    [k \in {"type"} \cup {f \in OptionalFields : event[f] # None} |->
        IF k = "type" THEN event.type ELSE event[k].val]

\* AgentEvent(**d): a field the dict does not hold takes its default, None.
from_dict(d) ==
    [k \in DOMAIN AgentEvent("") |->
        IF k = "type" THEN d.type
        ELSE IF k \in DOMAIN d THEN Some(d[k]) ELSE None]

\* ---------------------------------------------------------- the chat endpoint
\* routes.py, chat: the two ways the endpoint reads the events of process_query.
\* thread holds the add_message calls made and memory the add_memory calls.

ChatIdle == [state |-> "idle"]

\* Lines 99-109: the user message is in the cache and handed to the thread.
StoresAtStart(message) ==
    [history |-> <<Message("user", message)>>,
     thread  |-> <<Message("user", message)>>,
     memory  |-> <<>>]

\* Lines 116-117 and 159-160: both readers before the first event.
ChatStarted(message) ==
    [state |-> "reading", seen |-> 0,
     streaming |-> [full_response |-> "", is_clarification |-> FALSE, sent |-> <<>>,
                    stores |-> StoresAtStart(message)],
     buffered  |-> [full_response |-> "", events |-> <<>>, response |-> None,
                    stores |-> StoresAtStart(message)]]

\* event.content or ""
ContentOrEmpty(event) == IF event.content = None THEN "" ELSE event.content.val

\* Lines 126-132: the loop body of generate().
consume_streaming(reader, event) ==
    [reader EXCEPT
        !.sent = Append(@, to_dict(event)),
        !.full_response = IF event.type = "chunk" THEN @ \o ContentOrEmpty(event)
                          ELSE @,
        !.is_clarification = IF event.type = "clarification" THEN TRUE ELSE @]

\* The loop body of the buffered mode keeping the latest fragment only.
consume_buffered_last(reader, event) ==
    [reader EXCEPT
        !.events = Append(@, to_dict(event)),
        !.full_response = IF event.type = "chunk" THEN ContentOrEmpty(event) ELSE @]

\* Lines 168-170: the loop body of the buffered mode.
consume_buffered(reader, event) ==
    [reader EXCEPT
        !.events = Append(@, to_dict(event)),
        !.full_response = IF event.type = "chunk" THEN @ \o ContentOrEmpty(event)
                          ELSE @]

\* Lines 137-150 and 173-182: the reply goes to the cache, the thread and the
\* memory store, the memory being the last two messages of the cache.
store_reply(stores, reply) ==
    LET history == Append(stores.history, Message("assistant", reply))
    IN  [history |-> history,
         thread  |-> Append(stores.thread, Message("assistant", reply)),
         memory  |-> Append(stores.memory,
                            SubSeq(history, Len(history) - 1, Len(history)))]

\* Lines 134-150: after the loop of generate().
finish_streaming(reader) ==
    IF reader.full_response # "" /\ ~reader.is_clarification
    THEN [reader EXCEPT !.stores = store_reply(@, reader.full_response)]
    ELSE reader

\* The buffered mode storing its reply without testing that it is not empty.
finish_buffered_unconditional(reader) ==
    [reader EXCEPT
        !.stores = store_reply(@, reader.full_response),
        !.response = Some(reader.full_response)]

\* Lines 172-193: after the loop of the buffered mode, with the ChatResponse.
finish_buffered(reader) ==
    [reader EXCEPT
        !.stores = IF reader.full_response # ""
                   THEN store_reply(@, reader.full_response) ELSE @,
        !.response = Some(reader.full_response)]

\* ---------------------------------------------------------------- state

VARIABLES
    query,            \* the user's query
    user_id,          \* the caller identity
    conversation_id,
    llm_client,       \* LLMService.client is set (an API key is configured)
    TOOL_REGISTRY,    \* tool name -> registered tool
    pc,               \* where process_query is suspended: the line of its yield
    available_docs,   \* the document inventory fetched for the request
    intent,           \* the DetectedIntent, None before detection
    tool_results,     \* the ToolResults of the tool round so far
    llm_stream,       \* what is left of the provider's streamed reply
    events,           \* the events yielded so far
    llm_calls,        \* the provider calls made, with what each ended in
    executions,       \* the execute_tool calls made, with what each did
    context_sources,  \* the tool results folded into the generation context
    pieces_typed,     \* the pieces typed into the query (the classifier on its own)
    resumes,          \* how many times the consumer resumed the generator
    registrations,    \* the register_tool calls made after load_tools
    context,          \* the generation context built from the tool results
    chat,             \* the chat endpoint reading the events of the request
    conversation_history,  \* the earlier turns handed to process_query
    doc_stats,        \* what fetching the document names ended in, None before
    user_convs,       \* the cached turns of one conversation (concurrent requests)
    requests          \* the chat requests running on that conversation

vars == <<query, user_id, conversation_id, llm_client, TOOL_REGISTRY, pc,
          available_docs, intent, tool_results, llm_stream, events, llm_calls,
          executions, context_sources, pieces_typed,
          resumes, registrations, context, chat, conversation_history, doc_stats,
          user_convs, requests>>

inputs == <<query, user_id, conversation_id, llm_client, TOOL_REGISTRY, pieces_typed,
            registrations, chat, conversation_history, user_convs, requests>>

\* The document inventories a caller may have.
DocLists == {
    <<>>,
    << <<"a",".","p","d","f">> >>,
    << <<"a",".","p","d","f">>, <<"B",".","t","x","t">> >>
}

UserIds == {"user-1", ""}

\* The longest streamed reply, in items.
MaxStream == 2

StreamItems == {Delta("Hel"), Delta("lo"), Delta(""), StreamFault("connection reset")}

\* The streams the provider may answer a generation call with: a fault ends a stream.
LLMStreams ==
    UNION {{s \in [1..n -> StreamItems] : \A i \in 1..(n - 1) : s[i].kind # "fault"}
           : n \in 0..MaxStream}

\* TOOL_REGISTRY once load_tools has run.
LoadedRegistry ==
    [name \in LoadedTools |-> [name |-> name, handler |-> name, is_async |-> TRUE]]

Init ==
    /\ query \in Queries
    /\ user_id \in UserIds
    /\ conversation_id = "conv-1"
    /\ llm_client \in BOOLEAN
    /\ TOOL_REGISTRY = LoadedRegistry
    /\ pc = "start"
    /\ available_docs = <<>>
    /\ intent = None
    /\ tool_results = <<>>
    /\ llm_stream = <<>>
    /\ events = <<>>
    /\ llm_calls = <<>>
    /\ executions = <<>>
    /\ context_sources = <<>>
    /\ pieces_typed = 0
    /\ resumes = 0
    /\ registrations = <<>>
    /\ context = NoContext
    /\ chat = ChatIdle
    /\ conversation_history = <<>>
    /\ doc_stats = None
    /\ user_convs = <<>>
    /\ requests = <<>>

Emit(event) == events' = Append(events, event)

\* The except branch yielding the error event inside the generation loop, which
\* then goes on.
EmitErrorAndResume(message) ==
    /\ Emit([AgentEvent("error") EXCEPT
                !.content = Some("An error occurred: " \o message)])
    /\ pc' = "L168"

\* except Exception as e: yield the error event.
EmitError(message) ==
    /\ Emit([AgentEvent("error") EXCEPT
                !.content = Some("An error occurred: " \o message)])
    /\ pc' = "L175"

\* Lines 101: the first event.
Begin ==
    /\ pc = "start"
    /\ resumes' = resumes + 1
    /\ Emit([AgentEvent("thinking") EXCEPT
                !.content = Some("Checking your available documents...")])
    /\ pc' = "L101"
    /\ UNCHANGED <<inputs, available_docs, intent, tool_results, llm_stream,
                   llm_calls, executions, context_sources, context, doc_stats>>

\* Lines 102-105: _get_user_documents, where a failing store gives [].
\* What fetching the statistics raises when the document service fails.
DocumentServiceError == "RuntimeError: document service unavailable"

\* Lines 180-188: the filenames of the statistics, an empty list when fetching
\* them raised.
get_user_documents(stats) ==
    IF stats.kind = "fault" THEN <<>> ELSE stats.filenames

\* _get_user_documents without its except clause: the fault leaves process_query
\* through its outer handler.
FetchDocumentsRaising ==
    /\ pc = "L101"
    /\ resumes' = resumes + 1
    /\ \E stats \in [kind : {"fault"}] \cup [kind : {"names"}, filenames : DocLists] :
          /\ doc_stats' = Some(stats)
          /\ IF stats.kind = "fault"
             THEN /\ EmitError(DocumentServiceError)
                  /\ UNCHANGED available_docs
             ELSE /\ available_docs' = stats.filenames
                  /\ Emit([AgentEvent("thinking") EXCEPT
                              !.content = Some("Analyzing your request...")])
                  /\ pc' = "L105"
    /\ UNCHANGED <<inputs, intent, tool_results, llm_stream, llm_calls, executions,
                   context_sources, context>>

FetchDocuments ==
    /\ pc = "L101"
    /\ resumes' = resumes + 1
    /\ \E stats \in [kind : {"fault"}] \cup [kind : {"names"}, filenames : DocLists] :
          /\ available_docs' = get_user_documents(stats)
          /\ doc_stats' = Some(stats)
    /\ Emit([AgentEvent("thinking") EXCEPT
                !.content = Some("Analyzing your request...")])
    /\ pc' = "L105"
    /\ UNCHANGED <<inputs, intent, tool_results, llm_stream, llm_calls, executions,
                   context_sources, context>>

\* What the provider call of detect_intent_with_llm may end in.
ProviderAnswers ==
    [kind : {"fault"}] \cup [kind : {"text"}, text : ClassifierAnswers]

\* Lines 107-117: detect the intent and yield the intent event.  The provider is
\* called when the fast result is not confident and a client is configured.
DetectIntent ==
    /\ pc = "L105"
    /\ resumes' = resumes + 1
    /\ LET fast == detect_intent_fast(query, available_docs)
       IN  IF FastIsConfident(fast) \/ ~llm_client
           THEN /\ intent' = Some(detect_intent_with_llm(query, available_docs, None))
                /\ UNCHANGED llm_calls
           ELSE \E answer \in ProviderAnswers :
                   /\ intent' = Some(detect_intent_with_llm(query, available_docs, answer))
                   /\ llm_calls' = Append(llm_calls,
                                          [call |-> "classify", answer |-> answer])
    /\ Emit([AgentEvent("intent") EXCEPT
                !.intent = Some(intent'.val.category),
                !.confidence = Some(intent'.val.confidence)])
    /\ pc' = "L113"
    /\ UNCHANGED <<inputs, available_docs, tool_results, llm_stream, executions,
                   context_sources, context, doc_stats>>

\* The clarification event built with an empty list of options.
ClarificationOptionsEmpty(detected, docs) == <<>>

\* intent.clarification_options or available_docs
ClarificationOptions(detected, docs) ==
    IF detected.clarification_options # None /\ detected.clarification_options.val # <<>>
    THEN detected.clarification_options.val
    ELSE docs

\* The clarification branch without its return: the pipeline goes on.
AfterIntentFallThrough ==
    /\ pc = "L113"
    /\ resumes' = resumes + 1
    /\ IF intent.val.is_vague
       THEN /\ Emit([AgentEvent("clarification") EXCEPT
                        !.message = intent.val.clarification_message,
                        !.options = Some(ClarificationOptions(intent.val,
                                                              available_docs))])
            /\ pc' = IF intent.val.tools_to_use # <<>> THEN "L134" ELSE "L160"
       ELSE IF intent.val.tools_to_use # <<>>
       THEN /\ Emit([AgentEvent("thinking") EXCEPT
                        !.content = Some("Preparing to use "
                            \o ToString(Len(intent.val.tools_to_use)) \o " tool(s)...")])
            /\ pc' = "L134"
       ELSE /\ Emit([AgentEvent("thinking") EXCEPT
                        !.content = Some("Generating response...")])
            /\ pc' = "L160"
    /\ UNCHANGED <<inputs, available_docs, intent, tool_results, llm_stream,
                   llm_calls, executions, context_sources, context, doc_stats>>

\* Lines 122-134 and 160: after the intent event comes the clarification, the
\* announcement of the tool round, or the announcement of generation.
AfterIntent ==
    /\ pc = "L113"
    /\ resumes' = resumes + 1
    /\ IF intent.val.is_vague
       THEN /\ Emit([AgentEvent("clarification") EXCEPT
                        !.message = intent.val.clarification_message,
                        !.options = Some(ClarificationOptions(intent.val,
                                                              available_docs))])
            /\ pc' = "L123"
       ELSE IF intent.val.tools_to_use # <<>>
       THEN /\ Emit([AgentEvent("thinking") EXCEPT
                        !.content = Some("Preparing to use "
                            \o ToString(Len(intent.val.tools_to_use)) \o " tool(s)...")])
            /\ pc' = "L134"
       ELSE /\ Emit([AgentEvent("thinking") EXCEPT
                        !.content = Some("Generating response...")])
            /\ pc' = "L160"
    /\ UNCHANGED <<inputs, available_docs, intent, tool_results, llm_stream,
                   llm_calls, executions, context_sources, context, doc_stats>>

\* The tool round announcing the tools from the end of the list.
CallToolReversed ==
    /\ pc \in {"L134", "L150"}
    /\ resumes' = resumes + 1
    /\ Len(tool_results) < Len(intent.val.tools_to_use)
    /\ LET tool_name == intent.val.tools_to_use[Len(intent.val.tools_to_use)
                                                - Len(tool_results)]
           params    == build_tool_params(tool_name, query, intent.val)
       IN  Emit([AgentEvent("tool_call") EXCEPT
                    !.tool = Some(tool_name),
                    !.params = Some(WithoutIdentity(params))])
    /\ pc' = "L140"
    /\ UNCHANGED <<inputs, available_docs, intent, tool_results, llm_stream,
                   llm_calls, executions, context_sources, context, doc_stats>>

\* Lines 136-144: the next tool of the round is announced.
CallTool ==
    /\ pc \in {"L134", "L150"}
    /\ resumes' = resumes + 1
    /\ Len(tool_results) < Len(intent.val.tools_to_use)
    /\ LET tool_name == intent.val.tools_to_use[Len(tool_results) + 1]
           params    == build_tool_params(tool_name, query, intent.val)
       IN  Emit([AgentEvent("tool_call") EXCEPT
                    !.tool = Some(tool_name),
                    !.params = Some(WithoutIdentity(params))])
    /\ pc' = "L140"
    /\ UNCHANGED <<inputs, available_docs, intent, tool_results, llm_stream,
                   llm_calls, executions, context_sources, context, doc_stats>>

\* The tool round handing params itself to the tool_call event: what execute_tool
\* then writes into params shows in the event.
RunToolSharedParams ==
    /\ pc = "L140"
    /\ resumes' = resumes + 1
    /\ \E store \in StoreOutcomes :
          LET tool_name == intent.val.tools_to_use[Len(tool_results) + 1]
              params    == build_tool_params(tool_name, query, intent.val)
              done      == execute_tool(TOOL_REGISTRY, tool_name, params, user_id, store)
              shared    == IF done.kwargs = None THEN events
                           ELSE [events EXCEPT ![Len(events)].params = done.kwargs]
          IN  /\ executions' = Append(executions,
                                      [name |-> tool_name, params |-> params,
                                       user_id |-> user_id, kwargs |-> done.kwargs,
                                       faulted |-> done.faulted, result |-> done.result,
                                       raised |-> done.raised])
              /\ tool_results' = Append(tool_results, done.result)
              /\ events' = Append(shared, [AgentEvent("tool_result") EXCEPT
                                              !.tool = Some(tool_name),
                                              !.summary = Some(done.result.summary)])
              /\ pc' = "L150"
    /\ UNCHANGED <<inputs, available_docs, intent, llm_stream, llm_calls,
                   context_sources, context, doc_stats>>

\* Lines 147-154: the announced tool is executed and its summary yielded; an
\* exception out of execute_tool would reach the except branch of line 173.
RunTool ==
    /\ pc = "L140"
    /\ resumes' = resumes + 1
    /\ \E store \in StoreOutcomes :
          LET tool_name == intent.val.tools_to_use[Len(tool_results) + 1]
              params    == build_tool_params(tool_name, query, intent.val)
              done      == execute_tool(TOOL_REGISTRY, tool_name, params, user_id, store)
          IN  /\ executions' = Append(executions,
                                      [name |-> tool_name, params |-> params,
                                       user_id |-> user_id, kwargs |-> done.kwargs,
                                       faulted |-> done.faulted, result |-> done.result,
                                       raised |-> done.raised])
              /\ IF done.raised # None
                 THEN /\ EmitError(done.raised.val)
                      /\ UNCHANGED tool_results
                 ELSE /\ tool_results' = Append(tool_results, done.result)
                      /\ Emit([AgentEvent("tool_result") EXCEPT
                                  !.tool = Some(tool_name),
                                  !.summary = Some(done.result.summary)])
                      /\ pc' = "L150"
    /\ UNCHANGED <<inputs, available_docs, intent, llm_stream, llm_calls,
                   context_sources, context, doc_stats>>

\* Line 160: the tool round is over.
AnnounceGeneration ==
    /\ pc = "L150"
    /\ resumes' = resumes + 1
    /\ Len(tool_results) = Len(intent.val.tools_to_use)
    /\ Emit([AgentEvent("thinking") EXCEPT !.content = Some("Generating response...")])
    /\ pc' = "L160"
    /\ UNCHANGED <<inputs, available_docs, intent, tool_results, llm_stream,
                   llm_calls, executions, context_sources, context, doc_stats>>

\* The stream's end reached without the done event being yielded.
ReadStreamNoDone(stream) ==
    LET rest == SkipEmptyDeltas(stream)
    IN  IF rest = <<>>
        THEN /\ UNCHANGED events
             /\ pc' = "L171"
             /\ llm_stream' = <<>>
        ELSE IF Head(rest).kind = "fault"
        THEN /\ Emit([AgentEvent("chunk") EXCEPT
                         !.content = Some("Error: " \o Head(rest).message)])
             /\ pc' = "L168"
             /\ llm_stream' = <<>>
        ELSE /\ Emit([AgentEvent("chunk") EXCEPT !.content = Some(Head(rest).content)])
             /\ pc' = "L168"
             /\ llm_stream' = Tail(rest)

\* LLMService.generate_response from its next stream item on: a fragment is
\* yielded, a provider fault is caught and yielded as a fragment of text that ends
\* the stream, and the end of the stream ends the generator, after which
\* process_query yields done (lines 162-171).
ReadStream(stream) ==
    LET rest == SkipEmptyDeltas(stream)
    IN  IF rest = <<>>
        THEN /\ Emit([AgentEvent("done") EXCEPT
                         !.conversation_id = Some(conversation_id)])
             /\ pc' = "L171"
             /\ llm_stream' = <<>>
        ELSE IF Head(rest).kind = "fault"
        THEN /\ Emit([AgentEvent("chunk") EXCEPT
                         !.content = Some("Error: " \o Head(rest).message)])
             /\ pc' = "L168"
             /\ llm_stream' = <<>>
        ELSE /\ Emit([AgentEvent("chunk") EXCEPT !.content = Some(Head(rest).content)])
             /\ pc' = "L168"
             /\ llm_stream' = Tail(rest)

\* Lines 162-168 with _generate_response: the context is assembled and the provider
\* called; _check_api_key raises before the call when no client is configured.
Generate ==
    /\ pc = "L160"
    /\ resumes' = resumes + 1
    /\ context_sources' = ContextSources(tool_results)
    /\ context' = BuildContext(tool_results)
    /\ IF ~llm_client
       THEN /\ EmitError(ApiKeyError)
            /\ UNCHANGED <<llm_stream, llm_calls>>
       ELSE \E stream \in LLMStreams :
               /\ llm_calls' = Append(llm_calls,
                                      [call |-> "generate", answer |-> stream,
                                       system_prompt |->
                                           build_system_prompt(intent.val, context'),
                                       messages |->
                                           BuildMessages(
                                               build_system_prompt(intent.val, context'),
                                               conversation_history, query)])
               /\ ReadStream(stream)
    /\ UNCHANGED <<inputs, available_docs, intent, tool_results, executions, doc_stats>>

\* Lines 162-171: the next fragment, or done at the end of the stream.
NextChunk ==
    /\ pc = "L168"
    /\ resumes' = resumes + 1
    /\ ReadStream(llm_stream)
    /\ UNCHANGED <<inputs, available_docs, intent, tool_results, llm_calls,
                   executions, context_sources, context, doc_stats>>

\* The generator ends after its clarification (line 128), done or error event.
Finish ==
    /\ pc \in {"L123", "L171", "L175"}
    /\ resumes' = resumes + 1
    /\ pc' = "closed"
    /\ UNCHANGED <<inputs, available_docs, intent, tool_results, llm_stream, events,
                   llm_calls, executions, context_sources, context, doc_stats>>

Next ==
    \/ Begin
    \/ FetchDocuments
    \/ DetectIntent
    \/ AfterIntent
    \/ CallTool
    \/ RunTool
    \/ AnnounceGeneration
    \/ Generate
    \/ NextChunk
    \/ Finish

Spec == Init /\ [][Next]_vars

\* The consumer asks the generator for its next event.
Resume == pc # "closed" /\ resumes' = resumes + 1

\* The consumer keeps reading: a generator that is not closed is resumed again.
\* Every step of Next is a Resume step and every state but the closed one has
\* a step of Next, so this is weak fairness of Next.
LiveSpec == Spec /\ WF_resumes(Resume)

\* ------------------------------------------- the fast classifier on its own

\* The pieces queries are typed from.
QueryPieces == {
    <<"@">>, <<" ">>, <<"x">>,
    <<"a",".","p","d","f">>,
    <<"b",".","t","x","t">>,
    <<"s","u","m","m","a","r","i","z","e"," ">>,
    <<"t","h","i","s"," ">>,
    <<"r","e","m","e","m","b","e","r"," ">>,
    <<"t","h","e"," ","d","o","c","u","m","e","n","t"," ">>,
    <<"m","y"," ","f","i","l","e"," ">>
}

\* The longest typed query, in pieces.
MaxPieces == 3

FastInit ==
    /\ query = <<>>
    /\ available_docs \in DocLists
    /\ intent = None
    /\ pc = "typing"
    /\ user_id = "user-1"
    /\ conversation_id = "conv-1"
    /\ llm_client = FALSE
    /\ TOOL_REGISTRY = LoadedRegistry
    /\ tool_results = <<>>
    /\ llm_stream = <<>>
    /\ events = <<>>
    /\ llm_calls = <<>>
    /\ executions = <<>>
    /\ context_sources = <<>>
    /\ pieces_typed = 0
    /\ resumes = 0
    /\ registrations = <<>>
    /\ context = NoContext
    /\ chat = ChatIdle
    /\ conversation_history = <<>>
    /\ doc_stats = None
    /\ user_convs = <<>>
    /\ requests = <<>>

FastFrame ==
    UNCHANGED <<user_id, conversation_id, llm_client, TOOL_REGISTRY, available_docs,
                tool_results, llm_stream, events, llm_calls, executions,
                context_sources, resumes, registrations, context, chat,
                conversation_history, doc_stats, user_convs, requests>>

\* One more piece is typed into the query.
TypePiece ==
    /\ pc = "typing"
    /\ pieces_typed < MaxPieces
    /\ \E p \in QueryPieces : query' = query \o p
    /\ pieces_typed' = pieces_typed + 1
    /\ UNCHANGED <<intent, pc>>
    /\ FastFrame

\* detect_intent_fast is applied to the typed query.
Classify ==
    /\ pc = "typing"
    /\ intent' = Some(detect_intent_fast(query, available_docs))
    /\ pc' = "classified"
    /\ UNCHANGED <<query, pieces_typed>>
    /\ FastFrame

FastNext == TypePiece \/ Classify

FastSpec == FastInit /\ [][FastNext]_vars

\* ------------------------------------------------- the registry on its own

\* The names register_tool is called with: a new one and one load_tools registered.
RegisteredNames == {"my_tool", "list_documents"}

\* The names execute_tool is called with.
ExecutedNames == {"my_tool", "list_documents", "nonexistent_tool"}

\* The parameter sets execute_tool is called with: without a user_id, and with
\* one that is not the caller's.
ParamSets == {EmptyDict, [user_id |-> "user-2"]}

\* The most register_tool calls and the most execute_tool calls of a run.
MaxRegistrations == 2
MaxExecutions == 1

RegistryInit ==
    /\ TOOL_REGISTRY = LoadedRegistry
    /\ registrations = <<>>
    /\ executions = <<>>
    /\ pc = "registry"
    /\ query = <<>>
    /\ user_id = "user-1"
    /\ conversation_id = "conv-1"
    /\ llm_client = FALSE
    /\ available_docs = <<>>
    /\ intent = None
    /\ tool_results = <<>>
    /\ llm_stream = <<>>
    /\ events = <<>>
    /\ llm_calls = <<>>
    /\ context_sources = <<>>
    /\ pieces_typed = 0
    /\ resumes = 0
    /\ context = NoContext
    /\ chat = ChatIdle
    /\ conversation_history = <<>>
    /\ doc_stats = None
    /\ user_convs = <<>>
    /\ requests = <<>>

RegistryFrame ==
    UNCHANGED <<query, user_id, conversation_id, llm_client, pc, available_docs, intent,
                tool_results, llm_stream, events, llm_calls, context_sources,
                pieces_typed, resumes, context, chat, conversation_history, doc_stats,
                user_convs, requests>>

\* register_tool(name, ...)(func): TOOL_REGISTRY[name] = {...}, whatever it held.
register_tool(registry, name, func) ==
    [n \in DOMAIN registry \cup {name} |->
        IF n = name THEN [name |-> name, handler |-> func, is_async |-> TRUE]
        ELSE registry[n]]

\* A function is decorated with register_tool.
RegisterTool ==
    /\ pc = "registry"
    /\ Len(registrations) < MaxRegistrations
    /\ \E name \in RegisteredNames, func \in OtherHandlers :
          /\ TOOL_REGISTRY' = register_tool(TOOL_REGISTRY, name, func)
          /\ registrations' = Append(registrations,
                                     [name |-> name, handler |-> func, raised |-> None])
    /\ UNCHANGED executions
    /\ RegistryFrame

\* execute_tool is called; the log keeps what the handler it reached was and
\* what that handler gave back.
ExecuteTool ==
    /\ pc = "registry"
    /\ Len(executions) < MaxExecutions
    /\ \E name \in ExecutedNames, params \in ParamSets, caller \in UserIds,
          store \in StoreOutcomes :
          LET done == execute_tool(TOOL_REGISTRY, name, params, caller, store)
              handler == TOOL_REGISTRY[name].handler
          IN  executions' = Append(executions,
                  [name |-> name, params |-> params, user_id |-> caller,
                   kwargs |-> done.kwargs, faulted |-> done.faulted,
                   result |-> done.result, raised |-> done.raised,
                   handler |-> IF done.kwargs = None THEN None ELSE Some(handler),
                   outcome |-> IF done.kwargs = None THEN None
                               ELSE Some(CallHandler(handler, done.kwargs.val, store))])
    /\ UNCHANGED <<TOOL_REGISTRY, registrations>>
    /\ RegistryFrame

RegistryNext == RegisterTool \/ ExecuteTool

RegistrySpec == RegistryInit /\ [][RegistryNext]_vars

\* ------------------------------------------- the consumer stops reading
\* The consumer of process_query stops iterating while the generator is
\* suspended at a yield. Closing an async generator raises GeneratorExit at that
\* yield; a cancelled consumer raises CancelledError there. Neither is an
\* Exception, so the except branch of line 173 does not run.

SuspendedAt == {"L101", "L105", "L113", "L123", "L134", "L140", "L150", "L160",
                "L168", "L171", "L175"}

\* An except branch that catches the closing too and yields the error event.
AbandonCaught ==
    /\ pc \in SuspendedAt
    /\ Emit([AgentEvent("error") EXCEPT
                !.content = Some("An error occurred: GeneratorExit")])
    /\ pc' = "abandoned"
    /\ UNCHANGED <<inputs, available_docs, intent, tool_results, llm_stream,
                   llm_calls, executions, context_sources, resumes, context, doc_stats>>

\* Lines 99-175: the generator is closed at the yield it is suspended at.
Abandon ==
    /\ pc \in SuspendedAt
    /\ pc' = "abandoned"
    /\ UNCHANGED <<inputs, available_docs, intent, tool_results, llm_stream, events,
                   llm_calls, executions, context_sources, resumes, context, doc_stats>>

AbandonNext == Next \/ Abandon

AbandonSpec == Init /\ [][AbandonNext]_vars

\* ------------------------------------------------- the chat endpoint reading
\* One request read by both modes of the endpoint: the two call process_query
\* with the same arguments (lines 119-124 and 162-167), so they are fed the same
\* events. current_user.id is the identity of an authenticated caller.

ChatInit ==
    /\ query \in Queries
    /\ user_id = "user-1"
    /\ conversation_id = "conv-1"
    /\ llm_client \in BOOLEAN
    /\ TOOL_REGISTRY = LoadedRegistry
    /\ pc = "start"
    /\ available_docs = <<>>
    /\ intent = None
    /\ tool_results = <<>>
    /\ llm_stream = <<>>
    /\ events = <<>>
    /\ llm_calls = <<>>
    /\ executions = <<>>
    /\ context_sources = <<>>
    /\ pieces_typed = 0
    /\ resumes = 0
    /\ registrations = <<>>
    /\ context = NoContext
    /\ chat = ChatStarted(Str(query))
    /\ conversation_history = <<>>
    /\ doc_stats = None
    /\ user_convs = <<>>
    /\ requests = <<>>

ChatFrame ==
    UNCHANGED <<query, user_id, conversation_id, llm_client, TOOL_REGISTRY,
                available_docs, intent, tool_results, llm_stream, events, llm_calls,
                executions, context_sources, pieces_typed, resumes, registrations,
                context, conversation_history, doc_stats, user_convs, requests>>

\* async for event in agent.process_query(...): the generator is resumed.
ChatRead ==
    /\ chat.state = "reading"
    /\ chat.seen = Len(events)
    /\ Next

\* The loop body runs on the event just yielded.
ChatConsume ==
    /\ chat.state = "reading"
    /\ chat.seen < Len(events)
    /\ chat' = [chat EXCEPT
                   !.seen = @ + 1,
                   !.streaming = consume_streaming(@, events[chat.seen + 1]),
                   !.buffered = consume_buffered(@, events[chat.seen + 1])]
    /\ UNCHANGED pc
    /\ ChatFrame

\* The generator has returned: the code after the loop runs.
ChatReturn ==
    /\ chat.state = "reading"
    /\ pc = "closed"
    /\ chat.seen = Len(events)
    /\ chat' = [chat EXCEPT
                   !.state = "returned",
                   !.streaming = finish_streaming(@),
                   !.buffered = finish_buffered(@)]
    /\ UNCHANGED pc
    /\ ChatFrame

\* A cancellation whose cleanup stores what was read so far.
ChatCancelCommitting ==
    /\ chat.state = "reading"
    /\ pc # "closed"
    /\ chat' = [chat EXCEPT
                   !.state = "cancelled",
                   !.streaming = finish_streaming(@),
                   !.buffered = finish_buffered(@)]
    /\ pc' = "abandoned"
    /\ ChatFrame

\* The client disconnects or the request is cancelled: CancelledError is raised
\* at the await the endpoint is suspended at, and nothing after the loop runs.
ChatCancel ==
    /\ chat.state = "reading"
    /\ pc # "closed"
    /\ chat' = [chat EXCEPT !.state = "cancelled"]
    /\ pc' = "abandoned"
    /\ ChatFrame

ChatNext == ChatRead \/ ChatConsume \/ ChatReturn \/ ChatCancel

ChatSpec == ChatInit /\ [][ChatNext]_vars

\* ------------------------------------------- the generation context on its own
\* _generate_response up to the provider call, for tool results of every shape.

\* s repeated n times.
RECURSIVE Repeat(_, _)
Repeat(s, n) ==
    IF n = 0 THEN ""
    ELSE LET half == Repeat(s, n \div 2)
         IN  half \o half \o (IF n % 2 = 1 THEN s ELSE "")

\* The contents a store row may hold: none, a short one, and one just over each
\* of the two slices.
Texts == {"", "alpha", Repeat("x", ChunkContentCap + 1),
          Repeat("x", DocumentContentCap + 1)}

\* The tool results _generate_response may be given: those of the document and
\* memory tools, and results a registered handler may build.
ContextResults ==
    {ToolResult(ListData(<<>>), "No matching documents found", TRUE, None),
     ToolResult(ListData(<<>>), "Error fetching documents: " \o StoreFault, FALSE,
                Some(StoreFault)),
     ToolResult(NameList(<<"a.pdf", "B.txt">>), "Found 2 document(s): a.pdf, B.txt",
                TRUE, None),
     ToolResult(ListData([i \in 1..(ChunkLimit + 1) |->
                             [content |-> "alpha", metadata |-> [filename |-> "a.pdf"]]]),
                "Found 21 relevant chunks from 1 document(s): a.pdf", TRUE, None),
     ToolResult(ListData(<<[content |-> "alpha"], [filename |-> "a.pdf"]>>),
                "Brief summary", TRUE, None)}
    \cup {ToolResult(ListData(<<[content |-> t, metadata |-> [filename |-> "a.pdf"]]>>),
                     "Found 1 relevant chunks from 1 document(s): a.pdf", TRUE, None)
          : t \in Texts}
    \cup {ToolResult(ListData(<<[content |-> t, metadata |-> [filename |-> "a.pdf"]]>>),
                     "Partial result", FALSE, Some(StoreFault))
          : t \in Texts}
    \cup {ToolResult(ListData(<<[content |-> t, metadata |-> [source |-> "chat"]]>>),
                     "Found 1 relevant memories", TRUE, None)
          : t \in Texts}
    \cup {ToolResult(ListData(<<[filename |-> "a.pdf", content |-> t, chunk_count |-> 1]>>),
                     "Retrieved 1 chunks from 1 document(s): a.pdf", TRUE, None)
          : t \in Texts}
    \cup {ToolResult(ListData(<<[filename |-> "a.pdf", chunk_count |-> 1]>>),
                     "Brief summary", TRUE, None)}
    \cup {ToolResult(DocumentData("a.pdf", t, 1), "Retrieved 1 chunks from 'a.pdf'",
                     TRUE, None)
          : t \in Texts}

\* The longest tool round.
MaxResults == 2

ContextInit ==
    /\ tool_results \in UNION {[1..n -> ContextResults] : n \in 0..MaxResults}
    /\ intent \in {Some(DetectedIntent(category, Rat(7, 10),
                                       get_tools_for_intent(category), FALSE, None,
                                       None, NoEntities))
                   : category \in {"general_chat", "document_summary"}}
    /\ pc = "context"
    /\ query = <<>>
    /\ user_id = "user-1"
    /\ conversation_id = "conv-1"
    /\ llm_client = TRUE
    /\ TOOL_REGISTRY = LoadedRegistry
    /\ available_docs = <<>>
    /\ llm_stream = <<>>
    /\ events = <<>>
    /\ llm_calls = <<>>
    /\ executions = <<>>
    /\ context_sources = <<>>
    /\ pieces_typed = 0
    /\ resumes = 0
    /\ registrations = <<>>
    /\ context = NoContext
    /\ chat = ChatIdle
    /\ conversation_history = <<>>
    /\ doc_stats = None
    /\ user_convs = <<>>
    /\ requests = <<>>

\* Lines 239-258: the context is built and the system prompt with it.
BuildPrompt ==
    /\ pc = "context"
    /\ context_sources' = ContextSources(tool_results)
    /\ context' = BuildContext(tool_results)
    /\ llm_calls' = <<[call |-> "generate", answer |-> <<>>,
                       system_prompt |-> build_system_prompt(intent.val, context'),
                       messages |-> BuildMessages(
                                        build_system_prompt(intent.val, context'),
                                        conversation_history, query)]>>
    /\ pc' = "prompted"
    /\ UNCHANGED <<inputs, available_docs, intent, tool_results, llm_stream, events,
                   executions, resumes, doc_stats>>

ContextNext == BuildPrompt

ContextSpec == ContextInit /\ [][ContextNext]_vars

\* ------------------------------------------------- the generation with a history

\* The longest conversation history handed to process_query.
MaxHistory == 12

\* A history of n turns, the user and the assistant in turn, each with its own text.
Turns(n) ==
    [i \in 1..n |-> Message(IF i % 2 = 1 THEN "user" ELSE "assistant",
                            "turn-" \o ToString(i))]

\* _generate_response is entered with a history of every length up to the bound,
\* a query, and no or one tool result.
HistoryInit ==
    /\ conversation_history \in {Turns(n) : n \in 0..MaxHistory}
    /\ tool_results \in UNION {[1..n -> ContextResults] : n \in 0..1}
    /\ intent \in {Some(DetectedIntent(category, Rat(7, 10),
                                       get_tools_for_intent(category), FALSE, None,
                                       None, NoEntities))
                   : category \in {"general_chat", "document_summary"}}
    /\ query \in {<<>>, <<"h", "i">>}
    /\ pc = "context"
    /\ user_id = "user-1"
    /\ conversation_id = "conv-1"
    /\ llm_client = TRUE
    /\ TOOL_REGISTRY = LoadedRegistry
    /\ available_docs = <<>>
    /\ llm_stream = <<>>
    /\ events = <<>>
    /\ llm_calls = <<>>
    /\ executions = <<>>
    /\ context_sources = <<>>
    /\ pieces_typed = 0
    /\ resumes = 0
    /\ registrations = <<>>
    /\ context = NoContext
    /\ chat = ChatIdle
    /\ doc_stats = None
    /\ user_convs = <<>>
    /\ requests = <<>>

HistoryNext == BuildPrompt

HistorySpec == HistoryInit /\ [][HistoryNext]_vars

\* ------------------------------------- two chat requests on one conversation

\* The two requests, each with its own message.
RequestIds == {1, 2}
RequestMessage(r) == "message-" \o ToString(r)

\* What process_query streams as the reply of a request: nothing (a
\* clarification or an error) or a text.
Replies(r) == {"", "reply-to-" \o RequestMessage(r)}

\* user_convs[conversation_id][:-1]
AllButLast(messages) == SubSeq(messages, 1, Len(messages) - 1)

\* user_convs[conversation_id][-2:]
LastTwo(messages) ==
    SubSeq(messages, IF Len(messages) < 2 THEN 1 ELSE Len(messages) - 1, Len(messages))

\* The two requests arrive on a conversation that is new or holds an earlier
\* exchange, each in streaming or in non-streaming mode.
RaceInit ==
    /\ user_convs \in {<<>>, Turns(2)}
    /\ requests \in [RequestIds -> [pc : {"new"}, stream : BOOLEAN,
                                     cached : {None}, handed : {None},
                                     reply : {None}, memory : {None}]]
    /\ query = <<>>
    /\ user_id = "user-1"
    /\ conversation_id = "conv-1"
    /\ llm_client = TRUE
    /\ TOOL_REGISTRY = LoadedRegistry
    /\ pc = "start"
    /\ available_docs = <<>>
    /\ intent = None
    /\ tool_results = <<>>
    /\ llm_stream = <<>>
    /\ events = <<>>
    /\ llm_calls = <<>>
    /\ executions = <<>>
    /\ context_sources = <<>>
    /\ pieces_typed = 0
    /\ resumes = 0
    /\ registrations = <<>>
    /\ context = NoContext
    /\ chat = ChatIdle
    /\ conversation_history = <<>>
    /\ doc_stats = None

RaceFrame ==
    UNCHANGED <<query, user_id, conversation_id, llm_client, TOOL_REGISTRY, pc,
                available_docs, intent, tool_results, llm_stream, events, llm_calls,
                executions, context_sources, pieces_typed, resumes, registrations,
                context, chat, conversation_history, doc_stats>>

\* Lines 101-109 and 112-156 of a streaming request: the user message is put in
\* the cache and the handler returns the StreamingResponse; the body of
\* generate() has not started.
chat_streaming(r) ==
    /\ requests[r].pc = "new"
    /\ requests[r].stream
    /\ user_convs' = Append(user_convs, Message("user", RequestMessage(r)))
    /\ requests' = [requests EXCEPT ![r].pc = "received"]
    /\ RaceFrame

\* Lines 116-124: the response starts iterating generate(), whose call of
\* process_query slices the cache as it is then.
generate_start(r) ==
    /\ requests[r].pc = "received"
    /\ requests' = [requests EXCEPT ![r].pc = "reading",
                                    ![r].cached = Some(user_convs),
                                    ![r].handed = Some(AllButLast(user_convs))]
    /\ UNCHANGED user_convs
    /\ RaceFrame

\* Lines 134-150: after the last event, which generate() reaches through the
\* suspensions of its yields; a reply that is not empty is put in the cache and
\* the last two messages of the cache go to the memory store.
generate_finish(r) ==
    /\ requests[r].pc = "reading"
    /\ \E reply \in Replies(r) :
          IF reply # ""
          THEN /\ user_convs' = Append(user_convs, Message("assistant", reply))
               /\ requests' = [requests EXCEPT ![r].pc = "done",
                                               ![r].reply = Some(reply),
                                               ![r].memory = Some(LastTwo(user_convs'))]
          ELSE /\ UNCHANGED user_convs
               /\ requests' = [requests EXCEPT ![r].pc = "done",
                                               ![r].reply = Some(reply)]
    /\ RaceFrame

\* Lines 101-109 and 157-193 of a non-streaming request: no await of the handler
\* suspends it (every awaited service method runs to its end without awaiting
\* anything), so the request is served in one piece.
chat_buffered(r) ==
    /\ requests[r].pc = "new"
    /\ ~requests[r].stream
    /\ \E reply \in Replies(r) :
          LET cached == Append(user_convs, Message("user", RequestMessage(r)))
              stored == IF reply # "" THEN Append(cached, Message("assistant", reply))
                        ELSE cached
          IN  /\ user_convs' = stored
              /\ requests' = [requests EXCEPT
                                 ![r].pc = "done",
                                 ![r].cached = Some(cached),
                                 ![r].handed = Some(AllButLast(cached)),
                                 ![r].reply = Some(reply),
                                 ![r].memory = IF reply # "" THEN Some(LastTwo(stored))
                                               ELSE None]
    /\ RaceFrame

RaceNext ==
    \E r \in RequestIds :
        \/ chat_streaming(r)
        \/ generate_start(r)
        \/ generate_finish(r)
        \/ chat_buffered(r)

RaceSpec == RaceInit /\ [][RaceNext]_vars

\* --------------------------------------------------------------- claims

EventTypes == [i \in 1..Len(events) |-> events[i].type]
EventsOf(types) == {i \in 1..Len(events) : events[i].type \in types}
LastEvent == events[Len(events)]
TerminalTypes == {"clarification", "done", "error"}
Detected == intent.val
IsVague == intent # None /\ Detected.is_vague
GenerateCalls == {i \in 1..Len(llm_calls) : llm_calls[i].call = "generate"}
ClassifyCalls == {i \in 1..Len(llm_calls) : llm_calls[i].call = "classify"}
ToolEvents == SelectSeq(events, LAMBDA e : e.type \in {"tool_call", "tool_result"})

\* C1: a stream holds at most one error event, the error event is its last event,
\* a stream with an error event holds no done event, and nothing follows a done or
\* an error event.
C1_ErrorIsSingleAndLast ==
    /\ Cardinality(EventsOf({"error"})) <= 1
    /\ \A i \in EventsOf({"done", "error"}) : i = Len(events)
    /\ EventsOf({"error"}) = {} \/ EventsOf({"done"}) = {}

\* A finished stream that ends in an error event after a tool round.
C1_Witness ==
    /\ pc = "closed"
    /\ LastEvent.type = "error"
    /\ EventsOf({"tool_result"}) # {}

\* The provider's streamed reply faulted during generation.
ProviderFaultedInGeneration ==
    \E i \in GenerateCalls :
        \E k \in 1..Len(llm_calls[i].answer) : llm_calls[i].answer[k].kind = "fault"

\* C2: when the provider faults while streaming the reply, the finished stream ends
\* with a single error event and holds no done event.
C2_ProviderFaultEndsInError ==
    (pc = "closed" /\ ProviderFaultedInGeneration) =>
        /\ LastEvent.type = "error"
        /\ Cardinality(EventsOf({"error"})) = 1
        /\ EventsOf({"done"}) = {}

\* C3: for a vague intent the clarification event is the last event: no tool is
\* executed, the provider is not called for generation, and no event follows the
\* clarification event.
C3_VagueEndsInClarification ==
    /\ \A i \in EventsOf({"clarification"}) : i = Len(events)
    /\ IsVague =>
          /\ executions = <<>> /\ tool_results = <<>>
          /\ GenerateCalls = {}
          /\ EventsOf({"tool_call", "tool_result", "chunk", "done", "error"}) = {}
          /\ pc \in {"L113", "L123", "closed"}
          /\ pc # "L113" => LastEvent.type = "clarification"

\* A finished request whose vague intent names tools.
C3_Witness ==
    /\ pc = "closed"
    /\ IsVague
    /\ Detected.tools_to_use # <<>>
    /\ LastEvent.type = "clarification"

\* C4: for a non-vague intent with tool list T the tools run in the order of T; the
\* tool events are the pairs tool_call T[i], tool_result T[i] in that order, |T| of
\* each once the round is over, and all of them precede the first chunk event.
C4_ToolRoundInOrder ==
    (intent # None /\ ~Detected.is_vague) =>
        LET T == Detected.tools_to_use
        IN  /\ Len(ToolEvents) <= 2 * Len(T)
            /\ \A k \in 1..Len(ToolEvents) :
                  /\ ToolEvents[k].type = IF k % 2 = 1 THEN "tool_call" ELSE "tool_result"
                  /\ ToolEvents[k].tool = Some(T[(k + 1) \div 2])
            /\ Len(executions) <= Len(T)
            /\ \A i \in 1..Len(executions) :
                  /\ executions[i].name = T[i]
                  /\ Cardinality(EventsOf({"tool_call"})) >= i
            /\ \A c \in EventsOf({"chunk", "done"}) :
                  \A t \in EventsOf({"tool_call", "tool_result"}) : t < c
            /\ (pc = "closed" \/ EventsOf({"chunk", "done"}) # {}) =>
                  /\ Len(ToolEvents) = 2 * Len(T)
                  /\ Len(executions) = Len(T)

\* A finished memory_recall request: both memory tools ran, then fragments came.
C4_Witness ==
    /\ pc = "closed"
    /\ intent # None /\ ~Detected.is_vague
    /\ Detected.tools_to_use = <<"search_memories", "get_recent_memories">>
    /\ EventsOf({"chunk"}) # {}
    /\ LastEvent.type = "done"

FailedTools == {i \in 1..Len(tool_results) : ~tool_results[i].success}

\* C5: a failing tool does not abort the request: at the end every tool of the list
\* was executed, generation ran, and the stream ends in an error event only for the
\* generation's own fault (no provider client), never for the tool's.
C5_ToolFailureIsolated ==
    (pc = "closed" /\ FailedTools # {}) =>
        /\ Len(tool_results) = Len(Detected.tools_to_use)
        /\ Len(executions) = Len(Detected.tools_to_use)
        /\ \E i \in EventsOf({"thinking"}) :
              events[i].content = Some("Generating response...")
        /\ llm_client => (GenerateCalls # {} /\ LastEvent.type = "done")
        /\ ~llm_client =>
              LastEvent.content = Some("An error occurred: " \o ApiKeyError)

\* A finished request whose first tool raised, whose second tool succeeded, and
\* whose stream ends in done.
C5_Witness ==
    /\ pc = "closed"
    /\ Len(tool_results) = 2
    /\ executions[1].faulted # None
    /\ ~tool_results[1].success /\ tool_results[2].success
    /\ LastEvent.type = "done"

\* C6: execute_tool on an unregistered name returns a failed ToolResult without
\* data whose error is "Unknown tool: <name>"; it raises nothing and runs no handler.
C6_UnknownToolFails ==
    \A i \in 1..Len(executions) :
        executions[i].name \notin DOMAIN TOOL_REGISTRY =>
            /\ executions[i].raised = None
            /\ executions[i].kwargs = None
            /\ executions[i].result.success = FALSE
            /\ executions[i].result.data = None
            /\ executions[i].result.error
                  = Some("Unknown tool: " \o executions[i].name)
            /\ Len(tool_results) >= i /\ tool_results[i] = executions[i].result

\* execute_tool("nonexistent_tool", {}, "user-1") was called.
C6_Witness ==
    \E i \in 1..Len(executions) :
        /\ executions[i].name = "nonexistent_tool"
        /\ executions[i].params = EmptyDict
        /\ executions[i].user_id = "user-1"

\* C7: when the handler raises, execute_tool raises nothing and returns a failed
\* ToolResult without data whose error is the exception's message.
C7_HandlerFaultIsReturned ==
    \A i \in 1..Len(executions) :
        executions[i].faulted # None =>
            /\ executions[i].raised = None
            /\ executions[i].result.success = FALSE
            /\ executions[i].result.data = None
            /\ executions[i].result.error = executions[i].faulted
            /\ Len(tool_results) >= i /\ tool_results[i] = executions[i].result

\* A handler that ran with the caller's identity raised.
C7_Witness ==
    \E i \in 1..Len(executions) :
        /\ executions[i].faulted = Some(StoreFault)
        /\ executions[i].kwargs # None
        /\ executions[i].kwargs.val.user_id = "user-1"

EndsWithOneTerminal ==
    /\ events # <<>>
    /\ LastEvent.type \in TerminalTypes
    /\ Cardinality(EventsOf(TerminalTypes)) = 1

\* C8: a run whose consumer keeps reading ends, and its stream then holds exactly
\* one terminal event (clarification, done or error), as its last event.
C8_Terminates == <>(pc = "closed" /\ EndsWithOneTerminal)

\* Each of the three terminal events ends some finished run; this one ends in done
\* after a fragment.
C8_Witness ==
    /\ pc = "closed"
    /\ EndsWithOneTerminal
    /\ LastEvent.type = "done"
    /\ EventsOf({"chunk"}) # {}

\* The query holds an '@' directly followed by a non-whitespace character.
HasMarker(q) == \E i \in 1..(Len(q) - 1) : q[i] = "@" /\ q[i + 1] \notin Whitespace

\* name is the run of non-whitespace characters after the first such '@'.
IsMarkerName(q, name) ==
    \E i \in 1..(Len(q) - 1) :
        /\ q[i] = "@" /\ q[i + 1] \notin Whitespace
        /\ \A h \in 1..(i - 1) : ~(q[h] = "@" /\ q[h + 1] \notin Whitespace)
        /\ Len(name) >= 1 /\ i + Len(name) <= Len(q)
        /\ \A k \in 1..Len(name) : name[k] = q[i + k] /\ name[k] \notin Whitespace
        /\ i + Len(name) = Len(q) \/ q[i + Len(name) + 1] \in Whitespace

\* C9: for a query with an @name marker detect_intent_fast returns
\* document_specific with confidence 0.95, not vague, and the entity filename equal
\* to the name after the '@', whatever else the query and the documents match.
C9_MarkerWins ==
    (pc = "classified" /\ HasMarker(query)) =>
        /\ Detected.category = "document_specific"
        /\ RatEq(Detected.confidence, Rat(95, 100))
        /\ ~Detected.is_vague
        /\ DOMAIN Detected.extracted_entities = {"filename"}
        /\ IsMarkerName(query, Detected.extracted_entities["filename"])

\* A classified query with a marker that also holds a keyword, a vague reference
\* and the name of an available document.
C9_Witness ==
    /\ pc = "classified"
    /\ HasMarker(query)
    /\ VaguePatternFound(1, str_strip(str_lower(query)))
    /\ \E d \in 1..Len(available_docs) :
          str_in(str_lower(available_docs[d]), str_lower(query))
    /\ \E c \in 1..Len(INTENT_KEYWORDS) : KeywordScores(str_lower(query))[c] > 0

\* C10: for a query with an @name marker process_query never calls the provider
\* for classification, emits no clarification event, and its tool round is exactly
\* one call of get_document_by_name with the name after the '@' as filename.
C10_MarkerPipeline ==
    HasMarker(query) =>
        /\ ClassifyCalls = {}
        /\ EventsOf({"clarification"}) = {}
        /\ Len(executions) <= 1
        /\ \A i \in 1..Len(executions) :
              /\ executions[i].name = "get_document_by_name"
              /\ IsMarkerName(query, executions[i].params.filename)
        /\ \A i \in EventsOf({"tool_call"}) :
              /\ events[i].tool = Some("get_document_by_name")
              /\ IsMarkerName(query, events[i].params.val.filename)
        /\ Cardinality(EventsOf({"tool_call"})) <= 1
        /\ pc \in {"L150", "L160", "L168", "L171", "L175", "closed"} =>
              (Len(executions) = 1 /\ Cardinality(EventsOf({"tool_call"})) = 1)

\* A finished request for a marked query that also holds keywords and vague words,
\* run with a provider client.
C10_Witness ==
    /\ pc = "closed"
    /\ HasMarker(query)
    /\ llm_client
    /\ VaguePatternFound(1, str_strip(str_lower(query)))
    /\ Len(executions) = 1
    /\ LastEvent.type = "done"

\* What the fast path makes of the request's query and documents.
FastResult == detect_intent_fast(query, available_docs)

\* C11: for a query the fast path classifies as vague_query, process_query
\* reports category vague_query, its clarification event lists the available
\* documents as options, and it emits no tool_call, chunk or done event, whatever
\* the provider answers to the classification prompt.
C11_FastVagueStaysVague ==
    (intent # None /\ FastResult.category = "vague_query") =>
        /\ Detected.category = "vague_query"
        /\ \A i \in EventsOf({"intent"}) : events[i].intent = Some("vague_query")
        /\ EventsOf({"tool_call", "chunk", "done"}) = {}
        /\ pc = "closed" =>
              /\ LastEvent.type = "clarification"
              /\ LastEvent.options = Some(available_docs)

\* The words of the query, trimmed and in lower case, as detect_intent_fast scans them.
QueryLower == str_strip(str_lower(query))

\* An available document is named in the query.
NamesDocument ==
    \E d \in 1..Len(available_docs) : str_in(str_lower(available_docs[d]), QueryLower)

\* One of VAGUE_PATTERNS matches the query.
VaguePatternMatches == \E p \in 1..Len(VAGUE_PATTERNS) : VaguePatternFound(p, QueryLower)

\* The category with the highest keyword score.
BestCategory == INTENT_KEYWORDS[BestCategoryIndex(KeywordScores(QueryLower))].category

\* C12: for a query without an @ marker that names no available document, if a
\* vagueness pattern matches and the best-scoring category is document_summary,
\* document_search or document_specific, detect_intent_fast returns vague_query
\* with is_vague set, no tools and a clarification message.
C12_VagueDocumentQuery ==
    (/\ pc = "classified"
     /\ ~HasMarker(query) /\ ~NamesDocument
     /\ VaguePatternMatches
     /\ BestCategory \in {"document_summary", "document_search", "document_specific"})
    => /\ Detected.category = "vague_query"
       /\ Detected.is_vague
       /\ Detected.tools_to_use = <<>>
       /\ Detected.clarification_message # None

\* A classified query whose keywords score for document_summary and which holds
\* a vague reference, with documents available.
C12_Witness ==
    /\ pc = "classified"
    /\ ~HasMarker(query) /\ ~NamesDocument
    /\ VaguePatternFound(1, QueryLower)
    /\ KeywordScores(QueryLower)[1] > 0
    /\ BestCategory = "document_summary"
    /\ Len(available_docs) = 2
    /\ Detected.is_vague

\* The places where name occurs in text.
Occurrences(name, text) ==
    {i \in 1..(Len(text) - Len(name) + 1) : SubSeq(text, i, i + Len(name) - 1) = name}

\* text holds every name exactly once, in the order of names.
ListsEachOnceInOrder(text, names) ==
    /\ \A d \in 1..Len(names) : Cardinality(Occurrences(names[d], text)) = 1
    /\ \A d, e \in 1..Len(names) :
          d < e => \A i \in Occurrences(names[d], text) :
                      \A j \in Occurrences(names[e], text) : i + Len(names[d]) <= j

\* The query refers to a document without naming one: the first vagueness pattern
\* (this, that, it, the document, the paper, the file) or one of doc_refs matches.
VagueDocumentReference ==
    /\ ~NamesDocument
    /\ \/ VaguePatternFound(1, QueryLower)
       \/ \E r \in 1..Len(DocRefs) : str_in(DocRefs[r], QueryLower)

\* C13: with more than one document available, the clarification message the fast
\* path returns for a vague document reference holds every available document
\* name exactly once, in the order of the caller's list.
C13_ClarificationListsDocuments ==
    (/\ pc = "classified"
     /\ Len(available_docs) > 1
     /\ Detected.is_vague
     /\ VagueDocumentReference)
    => LET text == check_vagueness_text(QueryLower, available_docs)[2].val
       IN  /\ Detected.clarification_message = Some(Str(text))
           /\ ListsEachOnceInOrder(text, available_docs)

\* C14: every DetectedIntent that reaches the orchestrator with is_vague set has no
\* tools and has a clarification message.
C14_VagueIntentShape ==
    (intent # None /\ Detected.is_vague) =>
        /\ Detected.tools_to_use = <<>>
        /\ Detected.clarification_message # None

\* A confidence within [0, 1].
InUnitInterval(c) == c.d > 0 /\ 0 <= c.n /\ c.n <= c.d

\* C15: the confidence of every DetectedIntent returned by detect_intent_with_llm,
\* and of every intent event, is within [0, 1].
C15_ConfidenceInUnitInterval ==
    /\ intent # None => InUnitInterval(Detected.confidence)
    /\ \A i \in EventsOf({"intent"}) : InUnitInterval(events[i].confidence.val)

\* The provider call made for classification failed.
ClassificationFaulted ==
    \E i \in ClassifyCalls : llm_calls[i].answer.kind = "fault"

\* C16: when the provider call made for classification fails, the intent is
\* exactly the fast-path result for the same query and documents, the intent
\* event reports it, and the request goes on without an error event.
C16_ClassificationFaultDegrades ==
    ClassificationFaulted =>
        /\ intent = Some(FastResult)
        /\ \A i \in EventsOf({"intent"}) :
              /\ events[i].intent = Some(FastResult.category)
              /\ events[i].confidence = Some(FastResult.confidence)
        /\ EventsOf({"error"}) = {}
        /\ pc = "closed" => LastEvent.type \in {"clarification", "done"}

\* A finished request whose classification call failed and whose fast-path
\* result, a vague one, ended it in a clarification.
C16_Witness ==
    /\ pc = "closed"
    /\ ClassificationFaulted
    /\ FastResult.category = "vague_query"
    /\ LastEvent.type = "clarification"

\* The executions in which a handler ran.
HandlerRuns == {i \in 1..Len(executions) : executions[i].kwargs # None}

\* C17: execute_tool invokes the handler with user_id equal to the caller identity
\* it was given, also when params already held another user_id.
C17_HandlerRunsAsCaller ==
    \A i \in HandlerRuns :
        /\ "user_id" \in DOMAIN executions[i].kwargs.val
        /\ executions[i].kwargs.val.user_id = executions[i].user_id
        /\ \A k \in DOMAIN executions[i].params \ {"user_id"} :
              executions[i].kwargs.val[k] = executions[i].params[k]

\* A handler ran for caller user-1 although params named user-2.
C17_Witness ==
    \E i \in HandlerRuns :
        /\ executions[i].user_id = "user-1"
        /\ "user_id" \in DOMAIN executions[i].params
        /\ executions[i].params.user_id = "user-2"
        /\ executions[i].handler = Some("list_documents")

\* C18: no tool_call event carries the caller identity: its params hold no key
\* user_id, before and after the tool ran with the identity injected.
C18_ToolCallHidesIdentity ==
    \A i \in EventsOf({"tool_call"}) :
        /\ events[i].params # None
        /\ "user_id" \notin DOMAIN events[i].params.val

\* A tool ran with the caller identity among its keyword arguments, after its
\* tool_call event was emitted, and the request has finished.
C18_Witness ==
    /\ pc = "closed"
    /\ EventsOf({"tool_call"}) # {}
    /\ \E i \in HandlerRuns :
          /\ executions[i].kwargs.val.user_id = "user-1"
          /\ DOMAIN executions[i].kwargs.val # {"user_id"}

\* The generic summary of a wrapped value.
GenericSummary(name) == "Tool '" \o name \o "' executed successfully"

\* C19: execute_tool returns the handler's value unchanged when it is a
\* ToolResult, and otherwise a ToolResult with success set, the value as data and
\* the generic summary.
C19_ResultPassedOrWrapped ==
    \A i \in HandlerRuns :
        LET outcome == executions[i].outcome.val
        IN  outcome.kind = "return" =>
               /\ executions[i].raised = None
               /\ IF outcome.is_tool_result
                  THEN executions[i].result = outcome.value
                  ELSE /\ executions[i].result.data = outcome.value
                       /\ executions[i].result.success = TRUE
                       /\ executions[i].result.error = None
                       /\ executions[i].result.summary = GenericSummary(executions[i].name)

\* A registered handler returned a plain list, which came back wrapped.
C19_Witness ==
    \E i \in HandlerRuns :
        /\ executions[i].handler = Some("plain_list")
        /\ executions[i].outcome.val.kind = "return"
        /\ ~executions[i].outcome.val.is_tool_result
        /\ executions[i].result.data = NameList(<<"x", "y">>)

\* The handler first registered under name: the one load_tools registered, or
\* the one of the first register_tool call for it.
FirstHandler(name) ==
    IF name \in DOMAIN LoadedRegistry THEN LoadedRegistry[name].handler
    ELSE LET calls == {i \in 1..Len(registrations) : registrations[i].name = name}
         IN  registrations[SetMin(calls)].handler

\* C20: registering a registered name again with another handler does not
\* silently replace the handler: the registry still holds the first handler of
\* every name, or the later register_tool call failed.
C20_NoSilentOverwrite ==
    /\ \A name \in DOMAIN TOOL_REGISTRY :
          \/ TOOL_REGISTRY[name].handler = FirstHandler(name)
          \/ \E i \in 1..Len(registrations) :
                /\ registrations[i].name = name
                /\ registrations[i].handler # FirstHandler(name)
                /\ registrations[i].raised # None
    /\ \A i \in HandlerRuns :
          executions[i].handler = Some(FirstHandler(executions[i].name))

\* C21: once the consumer has stopped reading, the generator does nothing more:
\* the step that closes it and every later step run no tool, call no provider and
\* add no event (so no error and no done event), and the generator stays closed.
C21_AbandonedDoesNothing ==
    [][(pc' = "abandoned" \/ pc = "abandoned")
          => /\ events' = events
             /\ executions' = executions
             /\ llm_calls' = llm_calls
             /\ tool_results' = tool_results
             /\ pc' = "abandoned"]_vars

\* The consumer left in the middle of a tool round: one tool has run, another
\* was still to run, and neither done nor error was emitted.
C21_Witness ==
    /\ pc = "abandoned"
    /\ intent # None
    /\ Len(executions) >= 1
    /\ Len(executions) < Len(Detected.tools_to_use)
    /\ EventsOf({"done", "error"}) = {}

\* No keyword of any category occurs in the query.
NoKeywordTrigger ==
    \A c \in 1..Len(INTENT_KEYWORDS) : KeywordScores(QueryLower)[c] = 0

\* C25: for a query with no @ marker, no available document name and no keyword
\* of any category, detect_intent_fast returns general_chat with confidence 0.5
\* and no tools.
C25_ZeroScoreIsGeneralChat ==
    (pc = "classified" /\ ~HasMarker(query) /\ ~NamesDocument /\ NoKeywordTrigger)
        => /\ Detected.category = "general_chat"
           /\ RatEq(Detected.confidence, Rat(5, 10))
           /\ Detected.tools_to_use = <<>>

\* The fast-path result is confident: above 0.85 and not vague.
FastAboveThreshold == RatLt(Rat(85, 100), FastResult.confidence) /\ ~FastResult.is_vague

\* C26: when detect_intent_with_llm has returned, the provider was called for
\* classification only if the fast-path result has confidence <= 0.85 or is
\* vague; a confident, not vague fast-path result is returned as it is without a
\* provider call.
C26_ProviderOnlyWhenUnsure ==
    pc = "L113" =>
        /\ ClassifyCalls # {} => ~FastAboveThreshold
        /\ FastAboveThreshold => ClassifyCalls = {} /\ intent = Some(FastResult)

\* Detection has returned for a query that names a document without a marker
\* (confidence 0.9) with a client configured: no classification call was made.
C26_Witness ==
    /\ pc = "L113"
    /\ llm_client
    /\ RatEq(FastResult.confidence, Rat(9, 10))
    /\ ClassifyCalls = {}
    /\ intent = Some(FastResult)

\* The answer holds no CONFIDENCE line, or one whose value float() rejects.
ConfidenceMissingOrUnparsable(text) ==
    \/ "CONFIDENCE" \notin DOMAIN ParsedFields(text)
    \/ parse_float(ParsedFields(text)["CONFIDENCE"]) = None

\* The intent parsed from the answer with the default confidence written out
\* as its last line.
WithDefaultConfidence(text) ==
    parse_llm_response(
        text \o <<"\n","C","O","N","F","I","D","E","N","C","E",":"," ","0",".","7">>,
        available_docs).val

\* C27: when the classification answer has no CONFIDENCE line or one that is not
\* a number, the intent is the one parsed from the rest of the answer (category,
\* tools, vagueness, entities) with confidence 0.7.
C27_ConfidenceDefaults ==
    \A i \in ClassifyCalls :
        (/\ llm_calls[i].answer.kind = "text"
         /\ ConfidenceMissingOrUnparsable(llm_calls[i].answer.text))
            => intent = Some(WithDefaultConfidence(llm_calls[i].answer.text))

\* The first document of the list whose name occurs in the query.
FirstNamedDocument ==
    available_docs[SetMin({d \in 1..Len(available_docs) :
                             str_in(str_lower(available_docs[d]), QueryLower)})]

\* C28: for a query without an @ marker that holds, in any letter case, the name
\* of an available document, detect_intent_fast returns document_specific with
\* confidence 0.9 and the entity filename equal to the first listed document
\* named in the query, spelled as in the list, whatever keywords and vagueness
\* patterns match.
C28_NamedDocumentWins ==
    (pc = "classified" /\ ~HasMarker(query) /\ NamesDocument)
        => /\ Detected.category = "document_specific"
           /\ RatEq(Detected.confidence, Rat(9, 10))
           /\ ~Detected.is_vague
           /\ Detected.extracted_entities = [k \in {"filename"} |-> FirstNamedDocument]

\* A classified query that names B.txt in lower case beside a keyword and a
\* vagueness pattern.
C28_Witness ==
    /\ pc = "classified"
    /\ ~HasMarker(query)
    /\ NamesDocument
    /\ FirstNamedDocument = <<"B", ".", "t", "x", "t">>
    /\ VaguePatternMatches
    /\ ~NoKeywordTrigger

\* The stores of a reader hold an assistant reply.
HoldsReply(stores) ==
    \/ \E i \in 1..Len(stores.history) : stores.history[i].role = "assistant"
    \/ \E i \in 1..Len(stores.thread) : stores.thread[i].role = "assistant"
    \/ stores.memory # <<>>

\* A reader of the chat endpoint stored an assistant reply.
ReplyStored == HoldsReply(chat.streaming.stores) \/ HoldsReply(chat.buffered.stores)

\* C22: the chat endpoint stores an assistant reply (cache, thread, memory) only
\* for a request that was read to its end and whose events hold a done event; a
\* request that was cancelled, or whose stream ended in an error or a
\* clarification event, stores nothing, not even the text read so far.
C22_ReplyStoredOnlyAfterDone ==
    /\ ReplyStored => chat.state = "returned" /\ EventsOf({"done"}) # {}
    /\ chat.state = "cancelled" => ~ReplyStored
    /\ EventsOf({"error", "clarification"}) # {} => ~ReplyStored

\* A request cancelled after the first fragment of the reply was read: both
\* readers hold the fragment and neither stored it.
C22_Witness ==
    /\ chat.state = "cancelled"
    /\ chat.streaming.full_response = "Hel"
    /\ chat.buffered.full_response = "Hel"
    /\ ~ReplyStored

\* The contents of the chunk events, concatenated in order.
RECURSIVE ChunkText(_)
ChunkText(evs) ==
    IF evs = <<>> THEN ""
    ELSE (IF Head(evs).type = "chunk" /\ Head(evs).content # None
          THEN Head(evs).content.val ELSE "") \o ChunkText(Tail(evs))

\* C23: the buffered and the streaming mode read the same events; the reply the
\* buffered mode returns and stores is the in-order concatenation of the chunk
\* contents, which is what the streaming mode has delivered and what it stores.
C23_ModesAgree ==
    chat.state \in {"reading", "returned"} =>
        /\ chat.buffered.events = chat.streaming.sent
        /\ chat.buffered.full_response = chat.streaming.full_response
        /\ chat.state = "returned" =>
              /\ Len(chat.streaming.sent) = Len(events)
              /\ chat.buffered.response = Some(ChunkText(events))
              /\ chat.streaming.full_response = ChunkText(events)
              /\ chat.buffered.stores = chat.streaming.stores
              /\ ReplyStored =>
                    chat.buffered.stores.history[Len(chat.buffered.stores.history)]
                        = Message("assistant", ChunkText(events))

\* A request read to its end in both modes whose reply came in two fragments.
C23_Witness ==
    /\ chat.state = "returned"
    /\ Cardinality(EventsOf({"chunk"})) = 2
    /\ chat.buffered.response = Some("Hello")
    /\ ReplyStored

\* The fields of an event that are not None.
Populated(event) == {f \in OptionalFields : event[f] # None}

\* C24: the dict of an event holds the key type and, of the other fields, exactly
\* those that are not None, each with the field's value, so no key maps to null;
\* the event rebuilt from the dict encodes to the same dict and equals the
\* original on every populated field.
C24_SparseRoundTrip ==
    chat.state # "idle" =>
        \A i \in 1..Len(chat.streaming.sent) :
            LET d == chat.streaming.sent[i]
                e == events[i]
            IN  /\ DOMAIN d = {"type"} \cup Populated(e)
                /\ d.type = e.type
                /\ \A f \in Populated(e) : Some(d[f]) = e[f]
                /\ to_dict(from_dict(d)) = d
                /\ \A f \in Populated(e) : from_dict(d)[f] = e[f]
                /\ from_dict(d).type = e.type

\* A read clarification event whose options are the empty list: the key is in
\* the dict although the value is falsy, and seven other fields are left out.
C24_Witness ==
    /\ chat.state # "idle"
    /\ \E i \in 1..Len(chat.streaming.sent) :
          /\ events[i].type = "clarification"
          /\ events[i].options = Some(<<>>)
          /\ "options" \in DOMAIN chat.streaming.sent[i]
          /\ "content" \notin DOMAIN chat.streaming.sent[i]

\* The content items placed into the context, over all its parts.
PlacedItems ==
    UNION {{context.parts[p].items[i] : i \in 1..Len(context.parts[p].items)}
           : p \in 1..Len(context.parts)}

\* C29: every content item placed into the generation context is cut to a fixed
\* cap (at most the 3000 characters of the larger slice), whatever the shape of
\* the tool result it comes from: chunks, memory items, grouped documents or the
\* single document of get_document_by_name.
C29_EveryItemTruncated ==
    pc = "prompted" => \A item \in PlacedItems : item.taken <= DocumentContentCap

\* The system prompt of the generation call.
SystemPrompt == llm_calls[Len(llm_calls)].system_prompt

\* No tool result has both success set and data: there was no tool, or every
\* tool failed or came back empty.
NothingToContribute ==
    \A i \in 1..Len(tool_results) :
        ~tool_results[i].success \/ ~Truthy(tool_results[i].data)

\* C30: the context is built from tool results with success set only, one part
\* for each of them that has data; when there is none (no tools, all failed or
\* all empty) the system prompt holds the note that no relevant document content
\* was found and no document-content block.
C30_OnlySuccessfulResults ==
    pc = "prompted" =>
        /\ \A s \in 1..Len(context_sources) : tool_results[context_sources[s]].success
        /\ Len(context.parts) = Len(context_sources)
        /\ \A s \in 1..Len(context_sources) :
              context.parts[s] = format_tool_result(tool_results[context_sources[s]])
        /\ NothingToContribute =>
              /\ SystemPrompt.no_content_note
              /\ SystemPrompt.document_content = None
        /\ SystemPrompt.document_content # None => ~SystemPrompt.no_content_note

\* A prompt built after a failed tool that still carried data and a tool that
\* came back empty: it holds the note and no content block.
C30_Witness ==
    /\ pc = "prompted"
    /\ Len(tool_results) = 2
    /\ ~tool_results[1].success /\ Truthy(tool_results[1].data)
    /\ tool_results[2].success /\ ~Truthy(tool_results[2].data)
    /\ SystemPrompt.no_content_note
    /\ SystemPrompt.document_content = None

\* ---------------------------------------------------------------- C31 .. C40

\* The messages of the generation call the provider was sent.
SentMessages == llm_calls[Len(llm_calls)].messages

\* How many turns of the history are sent: min(10, n).
TurnsSent == IF Len(conversation_history) < 10 THEN Len(conversation_history) ELSE 10

\* C31: the message list sent for generation is one system message, then the
\* last min(10, n) turns of the n-turn history in their original order, then the
\* current query as the final user message; its length is min(10, n) + 2.
C31_MessagesSent ==
    (pc = "prompted" /\ llm_calls # <<>>) =>
        /\ Len(SentMessages) = TurnsSent + 2
        /\ SentMessages[1].role = "system"
        /\ SentMessages[1].content = llm_calls[Len(llm_calls)].system_prompt
        /\ \A i \in 1..TurnsSent :
              SentMessages[1 + i] =
                  conversation_history[Len(conversation_history) - TurnsSent + i]
        /\ SentMessages[TurnsSent + 2] = [role |-> "user", content |-> query]

\* A history of twelve turns: turns three to twelve are sent, between the system
\* message and the query.
C31_Witness ==
    /\ pc = "prompted"
    /\ Len(conversation_history) = 12
    /\ Len(SentMessages) = 12
    /\ SentMessages[2].content = "turn-3"
    /\ SentMessages[11].content = "turn-12"
    /\ SentMessages[12] = [role |-> "user", content |-> <<"h", "i">>]

\* The six tool executors.
ToolExecutors == {"search_documents", "get_all_user_documents", "get_document_by_name",
                  "list_documents", "search_memories", "get_recent_memories"}

\* The keyword arguments an executor is called with besides the identity.
ExecutorArguments(tool) ==
    CASE tool \in {"search_documents", "search_memories"} -> [query |-> <<"t", "e", "a">>]
      [] tool = "get_document_by_name" -> [filename |-> <<"a", ".", "p", "d", "f">>]
      [] OTHER -> EmptyDict

\* The arguments with an empty identity.
WithEmptyIdentity(arguments) ==
    [k \in DOMAIN arguments \cup {"user_id"} |->
        IF k = "user_id" THEN "" ELSE arguments[k]]

\* The outcome is a returned ToolResult that failed for want of an identity.
IsIdentityFailure(outcome) ==
    /\ outcome.kind = "return"
    /\ outcome.is_tool_result
    /\ outcome.value.success = FALSE
    /\ outcome.value.error = [val |-> "User ID required"]

\* C32: every tool executor called with an absent or empty caller identity
\* returns a ToolResult with success false and error "User ID required", raises
\* nothing, and makes no call to the document or memory store: whatever the
\* store would have done, the outcome is the same.
C32_IdentityRequired ==
    /\ \A tool \in ToolExecutors : \A store \in StoreOutcomes :
          /\ IsIdentityFailure(CallHandler(tool, ExecutorArguments(tool), store))
          /\ IsIdentityFailure(CallHandler(tool, WithEmptyIdentity(ExecutorArguments(tool)),
                                           store))
    /\ \A i \in 1..Len(executions) :
          (executions[i].user_id = "" /\ executions[i].name \in ToolExecutors) =>
              /\ executions[i].result.success = FALSE
              /\ executions[i].result.error = [val |-> "User ID required"]
              /\ executions[i].faulted = None
              /\ executions[i].raised = None

\* A request without a caller identity ran get_recent_memories, which came back
\* with the identity failure.
C32_Witness ==
    /\ user_id = ""
    /\ \E i \in 1..Len(executions) :
          /\ executions[i].name = "get_recent_memories"
          /\ executions[i].kwargs # None
          /\ executions[i].kwargs.val.user_id = ""
          /\ executions[i].result.error = [val |-> "User ID required"]
          /\ ~executions[i].result.success

\* Fetching the caller's document names failed in this request.
FetchFailed == doc_stats # None /\ doc_stats.val.kind = "fault"

\* C33: when fetching the caller's document names fails, process_query emits no
\* error event for it (the event after the fetch is the next thinking event, and
\* an error event is in the stream only when no API key is configured), intent
\* detection runs with an empty document list, and the pipeline goes on to its
\* normal terminal event, done or clarification.
C33_FetchFailureSwallowed ==
    FetchFailed =>
        /\ available_docs = <<>>
        /\ Len(events) >= 2 /\ events[2].type = "thinking"
        /\ EventsOf({"error"}) # {} => ~llm_client
        /\ pc = "L113" =>
              \E answer \in ProviderAnswers \cup {None} :
                  Detected = detect_intent_with_llm(query, <<>>, answer)
        /\ (pc = "closed" /\ llm_client) => LastEvent.type \in {"done", "clarification"}

\* A request whose fetch failed, finished with a done event after an intent event.
C33_Witness ==
    /\ FetchFailed
    /\ pc = "closed"
    /\ llm_client
    /\ LastEvent.type = "done"
    /\ EventsOf({"intent"}) # {}
    /\ EventsOf({"error"}) = {}

\* The document inventory fetched for this request.
FetchedInventory ==
    IF doc_stats.val.kind = "names" THEN doc_stats.val.filenames ELSE <<>>

\* The classifier supplied a non-empty list of clarification options.
ClassifierSuppliedOptions ==
    Detected.clarification_options # None /\ Detected.clarification_options.val # <<>>

\* C34: the options of every clarification event are the classifier's
\* clarification options when it supplied a non-empty list, and otherwise the
\* document inventory fetched for this request.
C34_ClarificationOptions ==
    \A i \in EventsOf({"clarification"}) :
        events[i].options =
            [val |-> IF ClassifierSuppliedOptions
                     THEN Detected.clarification_options.val
                     ELSE FetchedInventory]

\* A clarification event listing the two documents of the caller.
C34_Witness ==
    /\ EventsOf({"clarification"}) # {}
    /\ doc_stats.val.kind = "names"
    /\ Len(doc_stats.val.filenames) = 2
    /\ LastEvent.type = "clarification"
    /\ LastEvent.options = [val |-> doc_stats.val.filenames]

\* The category the intent event of the request carries.
IntentEventCategory == events[CHOOSE i \in EventsOf({"intent"}) : TRUE].intent

\* C36: once process_query has gone past its intent event, the stream holds a
\* clarification event if and only if that intent event carries the category
\* vague_query, whatever the provider answered to the classification prompt.
C36_ClarificationIffVagueCategory ==
    (EventsOf({"intent"}) # {} /\ pc # "L113") =>
        (EventsOf({"clarification"}) # {} <=> IntentEventCategory = [val |-> "vague_query"])

\* The chat request has returned and its pipeline ended in clarification.
EndedInClarification ==
    /\ chat.state = "returned"
    /\ LastEvent.type = "clarification"

\* The turns of a role in a list of messages.
TurnsOf(role, messages) == {i \in 1..Len(messages) : messages[i].role = role}

\* C35: when a chat request ends in clarification, the user's current message is
\* not part of the stored conversation history afterwards, neither in the cached
\* history nor in the saved thread, in either mode.
C35_ClarifiedMessageDiscarded ==
    EndedInClarification =>
        \A stores \in {chat.streaming.stores, chat.buffered.stores} :
            /\ \A i \in 1..Len(stores.history) :
                  stores.history[i] # [role |-> "user", content |-> Str(query)]
            /\ \A i \in 1..Len(stores.thread) :
                  stores.thread[i] # [role |-> "user", content |-> Str(query)]

\* C38: a chat request that ends in clarification appends no assistant turn to
\* the conversation history (cached or saved) and stores no memory, in streaming
\* and in non-streaming mode.
C38_ClarificationStoresNoReply ==
    EndedInClarification =>
        \A stores \in {chat.streaming.stores, chat.buffered.stores} :
            /\ TurnsOf("assistant", stores.history) = {}
            /\ TurnsOf("assistant", stores.thread) = {}
            /\ stores.memory = <<>>

\* A returned chat request whose last event is a clarification with a message,
\* both modes having read it.
C38_Witness ==
    /\ EndedInClarification
    /\ LastEvent.message # None
    /\ chat.streaming.is_clarification
    /\ chat.seen = Len(events)
    /\ chat.buffered.response # None

\* C39: in non-streaming mode a chat request whose pipeline ends in
\* clarification returns the clarification message in the aggregate answer, the
\* message the streaming mode delivers in the clarification event.
C39_BufferedReturnsClarification ==
    (EndedInClarification /\ LastEvent.message # None) =>
        /\ chat.streaming.sent[Len(chat.streaming.sent)].message = LastEvent.message.val
        /\ chat.buffered.response = [val |-> LastEvent.message.val]

\* The tool names of the static category-to-tools table.
TableTools ==
    UNION {{get_tools_for_intent(category)[i]
               : i \in 1..Len(get_tools_for_intent(category))}
           : category \in {IntentCategory[c] : c \in 1..Len(IntentCategory)}}

\* C40: after load_tools has run, every tool name of the static
\* category-to-tools table is registered, no execution of a tool of that table
\* comes back as an unknown tool, and while tools are executed and queries are
\* processed the set of registered names stays the one load_tools left.
C40_TableToolsRegistered ==
    /\ TableTools \subseteq DOMAIN TOOL_REGISTRY
    /\ \A i \in 1..Len(executions) :
          executions[i].name \in TableTools =>
              /\ executions[i].kwargs # None
              /\ executions[i].result.error # [val |-> "Unknown tool: " \o executions[i].name]
    /\ DOMAIN TOOL_REGISTRY = ToolExecutors

\* A finished request of the memory_recall category: both tools of its table row
\* were executed, and both were found in the registry.
C40_Witness ==
    /\ pc = "closed"
    /\ Detected.category = "memory_recall"
    /\ Len(executions) = 2
    /\ executions[1].name = "search_memories" /\ executions[1].kwargs # None
    /\ executions[2].name = "get_recent_memories" /\ executions[2].kwargs # None
    /\ DOMAIN TOOL_REGISTRY = ToolExecutors

\* The user message of a request.
OwnMessage(r) == [role |-> "user", content |-> RequestMessage(r)]

\* The messages without the user message of the request.
WithoutOwn(messages, r) == SelectSeq(messages, LAMBDA m : m # OwnMessage(r))

\* C37: of two chat requests served concurrently on one conversation, the
\* history handed to process_query for each is the cached conversation without
\* exactly that request's own user message, and the memory stored for each reply
\* is that request's user message followed by that request's assistant reply.
C37_ConcurrentRequestsIsolated ==
    \A r \in DOMAIN requests :
        /\ requests[r].handed # None =>
              requests[r].handed.val = WithoutOwn(requests[r].cached.val, r)
        /\ requests[r].memory # None =>
              requests[r].memory.val =
                  <<OwnMessage(r),
                    [role |-> "assistant", content |-> requests[r].reply.val]>>

====
